---- MODULE Spec2Model ----
(***************************************************************************)
(* Manifest reconciliation and versioning engine of segVerHandler /        *)
(* volsegSync: the file matcher (commons.verify_volseg_match), the         *)
(* reconciliation (commons.update_index), the manifest functions           *)
(* (manifest.py) and the service operations (koms_service.KomsService).    *)
(*                                                                         *)
(* Strings are sequences of one-character tokens, so that the regular      *)
(* expression of extract_version_number, int(), f"v{n}", str.strip,        *)
(* str.isdigit and str.endswith are computed as the code computes them.    *)
(* A file extension is one token (".vol", ".seg").                         *)
(***************************************************************************)
EXTENDS Integers, Sequences, FiniteSets, TLC

\* ------------------------------------------------------------------ bounds

\* The clock stops here: timestamps are 0..MaxClock.
MaxClock == 1

\* link_segmentation assigns version numbers up to MaxVersion.
MaxVersion == 4

\* create_index registers names while the text of the available indexes
\* has at most MaxAvailable parts.
MaxAvailable == 3

\* ------------------------------------------------------------ characters

\* Characters for which re's \d, int() and str.isdecimal agree.
DecDigits == {"0", "1", "2", "3", "4", "5", "6", "7", "8", "9"}

\* A character that str.isdigit accepts although it is no decimal digit
\* (SUPERSCRIPT TWO, U+00B2): "²".isdigit() is True, re's \d rejects it.
SuperDigits == {"sup2"}

\* The newline character, which a file name may hold.
Newline == "\n"

\* str.strip() and str.rstrip() without argument remove these.
Whitespace == {" ", Newline}

vext == <<".vol">>

sext == <<".seg">>

\* Python's None where an int is expected (version numbers are >= 0).
None == 0 - 1

\* Python's None / JSON null where a version token is expected.
Null == <<>>

\* str(None), as f"v{None}" formats it.
NoneStr == <<"N", "o", "n", "e">>

DigitVal(c) ==
  CASE c = "0" -> 0 [] c = "1" -> 1 [] c = "2" -> 2 [] c = "3" -> 3
    [] c = "4" -> 4 [] c = "5" -> 5 [] c = "6" -> 6 [] c = "7" -> 7
    [] c = "8" -> 8 [] c = "9" -> 9

DigitChar(d) ==
  CASE d = 0 -> "0" [] d = 1 -> "1" [] d = 2 -> "2" [] d = 3 -> "3"
    [] d = 4 -> "4" [] d = 5 -> "5" [] d = 6 -> "6" [] d = 7 -> "7"
    [] d = 8 -> "8" [] d = 9 -> "9"

\* int(s) for a non-empty string of decimal digits (leading zeros vanish).
RECURSIVE ParseInt(_)
ParseInt(ds) ==
  IF ds = <<>> THEN 0
  ELSE 10 * ParseInt(SubSeq(ds, 1, Len(ds) - 1)) + DigitVal(ds[Len(ds)])

\* str(n) for an int n >= 0: no leading zeros.
RECURSIVE FormatInt(_)
FormatInt(n) ==
  IF n < 10 THEN <<DigitChar(n)>>
  ELSE FormatInt(n \div 10) \o <<DigitChar(n % 10)>>

\* The {x} of an f-string for x an int or None.
FormatPy(x) == IF x = None THEN NoneStr ELSE FormatInt(x)

\* f"v{x}"
VToken(x) == <<"v">> \o FormatPy(x)

StartsWith(s, p) == Len(s) >= Len(p) /\ SubSeq(s, 1, Len(p)) = p

EndsWith(s, p) == Len(s) >= Len(p) /\ SubSeq(s, Len(s) - Len(p) + 1, Len(s)) = p

\* s[:-len(ext)]
DropExt(s, ext) == SubSeq(s, 1, Len(s) - Len(ext))

\* s[1:]
Rest(s) == IF s = <<>> THEN <<>> ELSE Tail(s)

\* str.isdigit(): non-empty and every character is a digit character.
IsDigit(s) == s # <<>> /\ \A i \in 1..Len(s) : s[i] \in DecDigits \cup SuperDigits

\* re \d+ : non-empty and every character is a decimal digit.
IsDecimal(s) == s # <<>> /\ \A i \in 1..Len(s) : s[i] \in DecDigits

RECURSIVE LStrip(_)
LStrip(s) == IF s # <<>> /\ Head(s) \in Whitespace THEN LStrip(Tail(s)) ELSE s

RECURSIVE RStrip(_)
RStrip(s) ==
  IF s # <<>> /\ s[Len(s)] \in Whitespace THEN RStrip(SubSeq(s, 1, Len(s) - 1)) ELSE s

\* str.strip()
Strip(s) == RStrip(LStrip(s))

\* A fixed enumeration of a finite set (iteration order where order only
\* decides the order of log lines).
RECURSIVE SetToSeq(_)
SetToSeq(S) ==
  IF S = {} THEN <<>> ELSE LET x == CHOOSE y \in S : TRUE IN <<x>> \o SetToSeq(S \ {x})

\* Every iteration order of a finite set.
RECURSIVE Orders(_)
Orders(S) ==
  IF S = {} THEN {<<>>}
  ELSE UNION {{<<x>> \o p : p \in Orders(S \ {x})} : x \in S}

Reverse(s) == [i \in 1..Len(s) |-> s[Len(s) + 1 - i]]

Range(s) == {s[i] : i \in 1..Len(s)}

\* --------------------------------------------------------------- commons

\* re.match(rf'^{re.escape(vol_name)}-v(\d+)$', seg_base): int(group 1) or None.
\* Without re.MULTILINE, $ matches at the end of the string and also just
\* before a newline that ends the string.
extract_version_number(seg_base, vol_name) ==
  LET prefix == vol_name \o <<"-", "v">>
      rest == SubSeq(seg_base, Len(prefix) + 1, Len(seg_base))
      digits == IF rest # <<>> /\ rest[Len(rest)] = Newline
                THEN SubSeq(rest, 1, Len(rest) - 1) ELSE rest
  IN IF StartsWith(seg_base, prefix) /\ IsDecimal(digits) THEN ParseInt(digits) ELSE None

\* sitk.Hash of the image stored under a name: an opaque fingerprint of the file.
hash_image(fname) == fname


\* --------------------------------------------------------------- manifest

\* A message of a log, warning or error list.
Msg(kind, subject, what) == [kind |-> kind, subject |-> subject, what |-> what]

\* The version record that verify_volseg_match builds for a matched file.
MatchRecord(seg_base, ver_num, now) ==
  [id |-> seg_base, hash |-> hash_image(seg_base), ts |-> now, author |-> "",
   notes |-> "", tags |-> <<>>, version |-> VToken(ver_num), lu |-> now]

get_all_versions(vols, subject_key) ==
  IF subject_key \in DOMAIN vols THEN vols[subject_key].versions ELSE <<>>

get_all_version_strings(vols, subject_key) ==
  LET vs == get_all_versions(vols, subject_key) IN [i \in 1..Len(vs) |-> vs[i].version]

get_selected_version(vols, subject_key) ==
  IF subject_key \in DOMAIN vols THEN vols[subject_key].selected ELSE Null

\* set_selected_version writing the selection of every subject.
set_selected_version_all(vols, subject_key, version) ==
  IF subject_key \in DOMAIN vols
  THEN [s \in DOMAIN vols |-> [vols[s] EXCEPT !.selected = version]]
  ELSE vols

set_selected_version(vols, subject_key, version) ==
  IF subject_key \in DOMAIN vols
  THEN [vols EXCEPT ![subject_key].selected = version]
  ELSE vols

\* The largest int(version[1:]) over the subject's records, None without records.
RECURSIVE LatestOf(_, _)
LatestOf(versions, latest) ==
  IF versions = <<>> THEN latest
  ELSE LET v_version == ParseInt(Rest(Head(versions).version))
       IN LatestOf(Tail(versions),
                   IF latest = None \/ v_version > latest THEN v_version ELSE latest)

\* get_latest_version comparing the digits as strings, character by character.
RECURSIVE StrLess(_, _)
StrLess(a, b) ==
  IF b = <<>> THEN FALSE
  ELSE IF a = <<>> THEN TRUE
  ELSE IF Head(a) = Head(b) THEN StrLess(Tail(a), Tail(b))
  ELSE DigitVal(Head(a)) < DigitVal(Head(b))

RECURSIVE LatestStrOf(_, _)
LatestStrOf(versions, latest) ==
  IF versions = <<>> THEN latest
  ELSE LET v_version == Rest(Head(versions).version)
       IN LatestStrOf(Tail(versions),
                      IF latest = <<>> \/ StrLess(latest, v_version) THEN v_version ELSE latest)

get_latest_version_str(vols, subject_key) ==
  IF subject_key \in DOMAIN vols /\ vols[subject_key].versions # <<>>
  THEN ParseInt(LatestStrOf(vols[subject_key].versions, <<>>))
  ELSE None

get_latest_version(vols, subject_key) ==
  IF subject_key \in DOMAIN vols THEN LatestOf(vols[subject_key].versions, None) ELSE None

\* remove_volume leaving no entry at all.
remove_volume_all(vols, subject_key) == [s \in {} |-> Null]

remove_volume(vols, subject_key) == [s \in DOMAIN vols \ {subject_key} |-> vols[s]]

\* remove_volume_version selecting the latest remaining version after every removal.
remove_volume_version_reselecting(vols, subject_key, version) ==
  IF subject_key \notin DOMAIN vols THEN [volumes |-> vols, log |-> "", latest |-> Null]
  ELSE
    LET versions == vols[subject_key].versions
        m1 == [vols EXCEPT ![subject_key].versions =
                 SelectSeq(versions, LAMBDA v : v.version # version)]
        latest_version == VToken(get_latest_version(m1, subject_key))
        m2 == set_selected_version(m1, subject_key, latest_version)
        m3 == IF m2[subject_key].versions = <<>> THEN remove_volume(m2, subject_key) ELSE m2
    IN [volumes |-> m3, log |-> "", latest |-> Null]

\* remove_volume_version without the repair of the selection.
remove_volume_version_unrepaired(vols, subject_key, version) ==
  IF subject_key \notin DOMAIN vols THEN [volumes |-> vols, log |-> "", latest |-> Null]
  ELSE
    LET versions == vols[subject_key].versions
        m1 == [vols EXCEPT ![subject_key].versions =
                 SelectSeq(versions, LAMBDA v : v.version # version)]
        m3 == IF m1[subject_key].versions = <<>> THEN remove_volume(m1, subject_key) ELSE m1
    IN [volumes |-> m3, log |-> "", latest |-> Null]

\* remove_volume_version without the deletion of an entry left without versions.
remove_volume_version_undeleted(vols, subject_key, version) ==
  IF subject_key \notin DOMAIN vols THEN [volumes |-> vols, log |-> "", latest |-> Null]
  ELSE
    LET versions == vols[subject_key].versions
        m1 == [vols EXCEPT ![subject_key].versions =
                 SelectSeq(versions, LAMBDA v : v.version # version)]
        wasSelected == get_selected_version(m1, subject_key) = version
        latest_version == VToken(get_latest_version(m1, subject_key))
        m2 == IF ~wasSelected THEN m1
              ELSE IF versions # <<>>
                   THEN set_selected_version(m1, subject_key, latest_version)
                   ELSE set_selected_version(m1, subject_key, Null)
        log == IF ~wasSelected THEN ""
               ELSE IF versions # <<>> THEN "updated selected-version to latest"
                    ELSE "no selected-version available"
    IN [volumes |-> m2, log |-> log,
        latest |-> IF wasSelected /\ versions # <<>> THEN latest_version ELSE Null]

\* Returns the manifest's volumes and the log line ("" when nothing is said).
remove_volume_version(vols, subject_key, version) ==
  IF subject_key \notin DOMAIN vols THEN [volumes |-> vols, log |-> "", latest |-> Null]
  ELSE
    LET versions == vols[subject_key].versions
        m1 == [vols EXCEPT ![subject_key].versions =
                 SelectSeq(versions, LAMBDA v : v.version # version)]
        wasSelected == get_selected_version(m1, subject_key) = version
        latest_version == VToken(get_latest_version(m1, subject_key))
        m2 == IF ~wasSelected THEN m1
              ELSE IF versions # <<>>
                   THEN set_selected_version(m1, subject_key, latest_version)
                   ELSE set_selected_version(m1, subject_key, Null)
        log == IF ~wasSelected THEN ""
               ELSE IF versions # <<>> THEN "updated selected-version to latest"
                    ELSE "no selected-version available"
        m3 == IF m2[subject_key].versions = <<>> THEN remove_volume(m2, subject_key) ELSE m2
    IN [volumes |-> m3, log |-> log,
        latest |-> IF wasSelected /\ versions # <<>> THEN latest_version ELSE Null]

\* KomsService._segver_directory, the root of the instance, as os.path.join
\* puts it in front of a relative path.
root_dir == <<"/instance/">>

\* The "volume-path" and "label-path" of the manifest, joined to the root.
volume_path == <<"volumes/">>

label_path == <<"labels/">>

\* get_volume_seg_tuples pairing every volume with its latest version.
get_volume_seg_tuples_latest(vols) ==
  LET keys == SetToSeq(DOMAIN vols)
      chosen == SelectSeq(keys, LAMBDA s : get_selected_version(vols, s) # Null)
  IN [i \in 1..Len(chosen) |->
        [subject |-> chosen[i],
         vol_file |-> root_dir \o volume_path \o chosen[i] \o vext,
         seg_file |-> root_dir \o label_path \o chosen[i] \o <<"-">>
                        \o VToken(get_latest_version(vols, chosen[i])) \o sext]]

\* One (subject, volume file, segmentation file) per subject whose
\* selected-version is neither None nor empty, in the order of the keys.
get_volume_seg_tuples(vols) ==
  LET keys == SetToSeq(DOMAIN vols)
      chosen == SelectSeq(keys, LAMBDA s : get_selected_version(vols, s) # Null)
  IN [i \in 1..Len(chosen) |->
        [subject |-> chosen[i],
         vol_file |-> root_dir \o volume_path \o chosen[i] \o vext,
         seg_file |-> root_dir \o label_path \o chosen[i] \o <<"-">>
                        \o get_selected_version(vols, chosen[i]) \o sext]]

\* ---------------------------------------------------------- FileMatcher

\* list.sort(key=int(version[1:])) is stable: a record goes behind every
\* record whose number is not larger.
RECURSIVE SortedInsert(_, _)
SortedInsert(sorted, r) ==
  IF sorted = <<>> THEN <<r>>
  ELSE IF ParseInt(Rest(Head(sorted).version)) <= ParseInt(Rest(r.version))
       THEN <<Head(sorted)>> \o SortedInsert(Tail(sorted), r)
       ELSE <<r>> \o sorted

RECURSIVE StableSort(_)
StableSort(rs) ==
  IF rs = <<>> THEN <<>>
  ELSE SortedInsert(StableSort(SubSeq(rs, 1, Len(rs) - 1)), rs[Len(rs)])

\* The candidate records of one volume, in directory-walk order.
RECURSIVE Candidates(_, _, _)
Candidates(vol_name, tar_fnames, now) ==
  IF tar_fnames = <<>> THEN <<>>
  ELSE LET seg_base == Head(tar_fnames)
           more == Candidates(vol_name, Tail(tar_fnames), now)
           ver_num == extract_version_number(seg_base, vol_name)
       IN IF ~StartsWith(seg_base, vol_name \o <<"-", "v">>) THEN more
          ELSE IF ver_num = None THEN more
          ELSE <<MatchRecord(seg_base, ver_num, now)>> \o more

\* All version ids of a volumes mapping.
AllIds(vols) == UNION {{vols[s].versions[i].id : i \in 1..Len(vols[s].versions)} : s \in DOMAIN vols}

\* find_outliers comparing the two lists of names with each other.
find_outliers_by_name(reference_list, target_list, volumes_index) ==
  [only_in_reference |-> reference_list \ target_list,
   only_in_target |-> target_list \ reference_list]

find_outliers(reference_list, target_list, volumes_index) ==
  [only_in_reference |-> reference_list \ DOMAIN volumes_index,
   only_in_target |-> target_list \ AllIds(volumes_index)]

\* verify_volseg_match looking for orphans whatever the two counts are.
verify_volseg_match_unguarded(vdir, vfiles, sdir, sfiles, walk, now) ==
  LET ref_fnames == IF vdir THEN vfiles ELSE {}
      tar_fnames == IF sdir THEN walk ELSE <<>>
      ref_count == Cardinality(ref_fnames)
      tar_count == Len(tar_fnames)
      verr == IF ~vdir THEN <<Msg("volumes directory does not exist", <<>>, <<>>)>>
              ELSE IF ref_count = 0 THEN <<Msg("no volume file", <<>>, <<>>)>> ELSE <<>>
      serr == IF ~sdir THEN <<Msg("segmentations directory does not exist", <<>>, <<>>)>>
              ELSE IF tar_count = 0 THEN <<Msg("no segmentation file", <<>>, <<>>)>> ELSE <<>>
      vlog == IF vdir /\ ref_count > 0 THEN <<Msg("volumes found", <<>>, <<>>)>> ELSE <<>>
      slog == IF sdir /\ tar_count > 0 THEN <<Msg("segmentations found", <<>>, <<>>)>> ELSE <<>>
      cand == [v \in ref_fnames |-> StableSort(Candidates(v, tar_fnames, now))]
      matched == {v \in ref_fnames : cand[v] # <<>>}
      volumes_index == [v \in matched |->
                          [selected |-> cand[v][Len(cand[v])].version, versions |-> cand[v]]]
      out == find_outliers(ref_fnames, Range(tar_fnames), volumes_index)
      w1 == IF out.only_in_reference # {}
            THEN <<[kind |-> "Volumes without segmentation", names |-> out.only_in_reference]>>
            ELSE <<>>
      w2 == IF out.only_in_target # {}
            THEN <<[kind |-> "Segmentations without volume", names |-> out.only_in_target]>>
            ELSE <<>>
  IN [log |-> vlog \o slog, warnings |-> w1 \o w2, errors |-> verr \o serr,
      volumes |-> volumes_index]

\* vdir, sdir: the directory exists; vfiles, sfiles: the base names of its
\* files with the configured extension; walk: the order in which os.walk
\* lists the segmentations; now: the UTC time.
verify_volseg_match(vdir, vfiles, sdir, sfiles, walk, now) ==
  LET ref_fnames == IF vdir THEN vfiles ELSE {}
      tar_fnames == IF sdir THEN walk ELSE <<>>
      ref_count == Cardinality(ref_fnames)
      tar_count == Len(tar_fnames)
      verr == IF ~vdir THEN <<Msg("volumes directory does not exist", <<>>, <<>>)>>
              ELSE IF ref_count = 0 THEN <<Msg("no volume file", <<>>, <<>>)>> ELSE <<>>
      serr == IF ~sdir THEN <<Msg("segmentations directory does not exist", <<>>, <<>>)>>
              ELSE IF tar_count = 0 THEN <<Msg("no segmentation file", <<>>, <<>>)>> ELSE <<>>
      vlog == IF vdir /\ ref_count > 0 THEN <<Msg("volumes found", <<>>, <<>>)>> ELSE <<>>
      slog == IF sdir /\ tar_count > 0 THEN <<Msg("segmentations found", <<>>, <<>>)>> ELSE <<>>
      cand == [v \in ref_fnames |-> StableSort(Candidates(v, tar_fnames, now))]
      matched == {v \in ref_fnames : cand[v] # <<>>}
      volumes_index == [v \in matched |->
                          [selected |-> cand[v][Len(cand[v])].version, versions |-> cand[v]]]
      out == find_outliers(ref_fnames, Range(tar_fnames), volumes_index)
      w1 == IF ref_count > 0 /\ tar_count > 0 /\ out.only_in_reference # {}
            THEN <<[kind |-> "Volumes without segmentation", names |-> out.only_in_reference]>>
            ELSE <<>>
      w2 == IF ref_count > 0 /\ tar_count > 0 /\ out.only_in_target # {}
            THEN <<[kind |-> "Segmentations without volume", names |-> out.only_in_target]>>
            ELSE <<>>
  IN [log |-> vlog \o slog, warnings |-> w1 \o w2, errors |-> verr \o serr,
      volumes |-> volumes_index]


\* -------------------------------------------------------- Reconciliation

\* The versions of new_versions whose token the entry did not have before the loop.
AppendNew(existing, new_versions) ==
  LET existing_versions == {existing[i].version : i \in 1..Len(existing)}
  IN existing \o SelectSeq(new_versions, LAMBDA v : v.version \notin existing_versions)

\* Log lines of the first loop for one subject of the new data.
AddedLog(vols, new, subject_key) ==
  LET nv == new[subject_key].versions
      existing_versions == Range(get_all_version_strings(vols, subject_key))
      fresh == IF subject_key \notin DOMAIN vols THEN nv
               ELSE SelectSeq(nv, LAMBDA v : v.version \notin existing_versions)
      lines == [i \in 1..Len(fresh) |-> Msg("added version", subject_key, fresh[i].version)]
  IN IF subject_key \notin DOMAIN vols
     THEN <<Msg("added volume", subject_key, <<>>)>> \o lines
     ELSE lines

RECURSIVE FlatMap(_, _, _)
FlatMap(vols, new, subjects) ==
  IF subjects = <<>> THEN <<>>
  ELSE AddedLog(vols, new, Head(subjects)) \o FlatMap(vols, new, Tail(subjects))

\* for subject_key, vol_data in manifest["volumes"].items(): remove seg_id's
\* version from every subject. A removal that deletes the subject's entry
\* changes the size of the dictionary being iterated: the next step of the
\* iteration raises RuntimeError.
RECURSIVE RemoveFromEach(_, _, _)
RemoveFromEach(st, seg_id, subjects) ==
  IF st.raised \/ subjects = <<>> THEN st
  ELSE LET subject_key == Head(subjects)
           version == extract_version_number(seg_id, subject_key)
           r == remove_volume_version(st.volumes, subject_key, VToken(version))
           lines == <<Msg("removed version", subject_key, seg_id)>>
                    \o (IF r.log # "" THEN <<Msg(r.log, subject_key, r.latest)>> ELSE <<>>)
       IN RemoveFromEach([volumes |-> r.volumes, log |-> st.log \o lines,
                          raised |-> subject_key \notin DOMAIN r.volumes],
                         seg_id, Tail(subjects))

RECURSIVE RemoveSegs(_, _)
RemoveSegs(st, removed_segs) ==
  IF st.raised \/ removed_segs = <<>> THEN st
  ELSE RemoveSegs(RemoveFromEach(st, Head(removed_segs), SetToSeq(DOMAIN st.volumes)),
                  Tail(removed_segs))

\* The version ids in the old manifest and not in the new data.
RemovedSegs(vols, new) == AllIds(vols) \ AllIds(new)

\* vols: the manifest's volumes (updated in place); new: the volumes of
\* new_manifest; seg_order: the order in which the set removed_segs is iterated.
\* raised: the call ended in RuntimeError, volumes is what it left behind.
update_index(vols, new, seg_order) ==
  LET volume_set == DOMAIN vols
      new_volume_set == DOMAIN new
      merged == [s \in volume_set \cup new_volume_set |->
                   IF s \notin volume_set THEN new[s]
                   ELSE IF s \in new_volume_set
                        THEN [vols[s] EXCEPT !.versions = AppendNew(@, new[s].versions)]
                        ELSE vols[s]]
      added == FlatMap(vols, new, SetToSeq(new_volume_set))
      removed_volumes == volume_set \ new_volume_set
      kept == [s \in DOMAIN merged \ removed_volumes |-> merged[s]]
      gone == LET rv == SetToSeq(removed_volumes)
              IN [i \in 1..Len(rv) |-> Msg("removed volume", rv[i], <<>>)]
  IN RemoveSegs([volumes |-> kept, log |-> added \o gone, raised |-> FALSE], seg_order)


\* ---------------------------------------------------------- KomsService

\* What an operation returns: the manifest's volumes, the persisted volumes,
\* the segmentation files on disk, and the (log, warnings, errors) triple;
\* raised names the exception that ended it ("" when it returned).
Outcome(vols, st, sfiles, log, warnings, errors, raised) ==
  [volumes |-> vols, stored |-> st, sfiles |-> sfiles, log |-> log,
   warnings |-> warnings, errors |-> errors, raised |-> raised]

\* The version token passes the check of select_segmentation.
ValidToken(seg_version) == StartsWith(seg_version, <<"v">>) /\ IsDigit(Rest(seg_version))

\* select_segmentation without the check that the token is among the versions.
select_segmentation_unchecked(vols, st, vfiles, sfiles, volume_fname, seg_version_arg) ==
  LET seg_version == Strip(seg_version_arg)
      vol_base == DropExt(volume_fname, vext)
      expected_seg == vol_base \o <<"-">> \o seg_version
      old_selected == get_selected_version(vols, vol_base)
      manifest_versions == get_all_version_strings(vols, vol_base)
      noVolume == remove_volume(vols, vol_base)
      noVersion == remove_volume_version(vols, vol_base, seg_version).volumes
      selected == set_selected_version(vols, vol_base, seg_version)
  IN IF ~ValidToken(seg_version)
     THEN Outcome(vols, st, sfiles, <<>>, <<>>,
                  <<Msg("Version must be like v<N>", <<>>, seg_version)>>, "")
     ELSE IF ~EndsWith(volume_fname, vext)
     THEN Outcome(vols, st, sfiles, <<>>, <<>>,
                  <<Msg("Volume file does not end with vext", <<>>, volume_fname)>>, "")
     ELSE IF vol_base \notin DOMAIN vols
     THEN Outcome(vols, st, sfiles, <<>>, <<>>,
                  <<Msg("Volume not found in manifest", vol_base, <<>>)>>, "")
     ELSE IF vol_base \notin vfiles
     THEN Outcome(noVolume, noVolume, sfiles, <<>>, <<>>,
                  <<Msg("Volume file not found", vol_base, <<>>),
                    Msg("Removed volume from manifest", vol_base, <<>>)>>, "")
     ELSE IF expected_seg \notin sfiles
     THEN Outcome(noVersion, noVersion, sfiles, <<>>,
                  <<Msg("Please select from available versions", vol_base,
                        get_all_version_strings(noVersion, vol_base)),
                    IF old_selected = seg_version
                    THEN Msg("Previously selected version no longer available. Defaulting to",
                             vol_base, VToken(get_latest_version(noVersion, vol_base)))
                    ELSE Msg("No changes made to manifest", vol_base, <<>>)>>,
                  <<Msg("Segmentation file not found", vol_base, expected_seg),
                    Msg("Removed version from manifest", vol_base, seg_version)>>, "")
     ELSE Outcome(selected, selected, sfiles,
                  IF old_selected = seg_version THEN <<>>
                  ELSE <<Msg("Selected segmentation updated", vol_base, seg_version)>>,
                  IF old_selected = seg_version
                  THEN <<Msg("Selected version is already", vol_base, seg_version)>>
                  ELSE <<>>,
                  <<>>, "")

\* vfiles, sfiles: base names of the files in the configured directories.
select_segmentation(vols, st, vfiles, sfiles, volume_fname, seg_version_arg) ==
  LET seg_version == Strip(seg_version_arg)
      vol_base == DropExt(volume_fname, vext)
      expected_seg == vol_base \o <<"-">> \o seg_version
      old_selected == get_selected_version(vols, vol_base)
      manifest_versions == get_all_version_strings(vols, vol_base)
      noVolume == remove_volume(vols, vol_base)
      noVersion == remove_volume_version(vols, vol_base, seg_version).volumes
      selected == set_selected_version(vols, vol_base, seg_version)
  IN IF ~ValidToken(seg_version)
     THEN Outcome(vols, st, sfiles, <<>>, <<>>,
                  <<Msg("Version must be like v<N>", <<>>, seg_version)>>, "")
     ELSE IF ~EndsWith(volume_fname, vext)
     THEN Outcome(vols, st, sfiles, <<>>, <<>>,
                  <<Msg("Volume file does not end with vext", <<>>, volume_fname)>>, "")
     ELSE IF vol_base \notin DOMAIN vols
     THEN Outcome(vols, st, sfiles, <<>>, <<>>,
                  <<Msg("Volume not found in manifest", vol_base, <<>>)>>, "")
     ELSE IF vol_base \notin vfiles
     THEN Outcome(noVolume, noVolume, sfiles, <<>>, <<>>,
                  <<Msg("Volume file not found", vol_base, <<>>),
                    Msg("Removed volume from manifest", vol_base, <<>>)>>, "")
     ELSE IF seg_version \notin Range(manifest_versions)
     THEN Outcome(vols, st, sfiles, <<>>,
                  <<Msg("No changes made to manifest", vol_base, <<>>)>>,
                  <<Msg("Version not found in manifest", vol_base, seg_version),
                    Msg("Please select from available versions", vol_base, manifest_versions)>>,
                  "")
     ELSE IF expected_seg \notin sfiles
     THEN Outcome(noVersion, noVersion, sfiles, <<>>,
                  <<Msg("Please select from available versions", vol_base,
                        get_all_version_strings(noVersion, vol_base)),
                    IF old_selected = seg_version
                    THEN Msg("Previously selected version no longer available. Defaulting to",
                             vol_base, VToken(get_latest_version(noVersion, vol_base)))
                    ELSE Msg("No changes made to manifest", vol_base, <<>>)>>,
                  <<Msg("Segmentation file not found", vol_base, expected_seg),
                    Msg("Removed version from manifest", vol_base, seg_version)>>, "")
     ELSE Outcome(selected, selected, sfiles,
                  IF old_selected = seg_version THEN <<>>
                  ELSE <<Msg("Selected segmentation updated", vol_base, seg_version)>>,
                  IF old_selected = seg_version
                  THEN <<Msg("Selected version is already", vol_base, seg_version)>>
                  ELSE <<>>,
                  <<>>, "")

\* add_volume_version selecting the version it appends.
add_volume_version_selecting(vols, subject_key, version, ts, last_updated) ==
  LET m1 == IF subject_key \notin DOMAIN vols
            THEN [s \in DOMAIN vols \cup {subject_key} |->
                    IF s = subject_key THEN [selected |-> version, versions |-> <<>>]
                    ELSE vols[s]]
            ELSE vols
      version_id == subject_key \o <<"-">> \o version
      entry == [id |-> version_id, hash |-> <<version_id, ts>>, ts |-> ts, author |-> "",
                notes |-> "", tags |-> <<>>, version |-> version, lu |-> last_updated]
      versions == m1[subject_key].versions
  IN IF \E i \in 1..Len(versions) : versions[i].version = version
     THEN [volumes |-> m1, added |-> FALSE]
     ELSE [volumes |-> [m1 EXCEPT ![subject_key] =
                          [selected |-> version, versions |-> Append(versions, entry)]],
           added |-> TRUE]

\* add_volume_version replacing the record of a version that exists.
add_volume_version_replacing(vols, subject_key, version, ts, last_updated) ==
  LET m1 == IF subject_key \notin DOMAIN vols
            THEN [s \in DOMAIN vols \cup {subject_key} |->
                    IF s = subject_key THEN [selected |-> version, versions |-> <<>>]
                    ELSE vols[s]]
            ELSE vols
      version_id == subject_key \o <<"-">> \o version
      entry == [id |-> version_id, hash |-> <<version_id, ts>>, ts |-> ts, author |-> "",
                notes |-> "", tags |-> <<>>, version |-> version, lu |-> last_updated]
      versions == m1[subject_key].versions
  IN [volumes |-> [m1 EXCEPT ![subject_key].versions =
                     Append(SelectSeq(versions, LAMBDA v : v.version # version), entry)],
      added |-> TRUE]

\* add_volume_version that creates the entry of a new subject and stops there.
add_volume_version_unappended(vols, subject_key, version, ts, last_updated) ==
  LET version_id == subject_key \o <<"-">> \o version
      entry == [id |-> version_id, hash |-> <<version_id, ts>>, ts |-> ts, author |-> "",
                notes |-> "", tags |-> <<>>, version |-> version, lu |-> last_updated]
  IN IF subject_key \notin DOMAIN vols
     THEN [volumes |-> [s \in DOMAIN vols \cup {subject_key} |->
                          IF s = subject_key THEN [selected |-> version, versions |-> <<>>]
                          ELSE vols[s]],
           added |-> TRUE]
     ELSE IF \E i \in 1..Len(vols[subject_key].versions) :
               vols[subject_key].versions[i].version = version
     THEN [volumes |-> vols, added |-> FALSE]
     ELSE [volumes |-> [vols EXCEPT ![subject_key].versions = Append(@, entry)],
           added |-> TRUE]

\* manifest.add_volume_version with its default author, notes and tags.
\* added: the return value.
add_volume_version(vols, subject_key, version, ts, last_updated) ==
  LET m1 == IF subject_key \notin DOMAIN vols
            THEN [s \in DOMAIN vols \cup {subject_key} |->
                    IF s = subject_key THEN [selected |-> version, versions |-> <<>>]
                    ELSE vols[s]]
            ELSE vols
      version_id == subject_key \o <<"-">> \o version
      entry == [id |-> version_id, hash |-> <<version_id, ts>>, ts |-> ts, author |-> "",
                notes |-> "", tags |-> <<>>, version |-> version, lu |-> last_updated]
      versions == m1[subject_key].versions
  IN IF \E i \in 1..Len(versions) : versions[i].version = version
     THEN [volumes |-> m1, added |-> FALSE]
     ELSE [volumes |-> [m1 EXCEPT ![subject_key].versions = Append(versions, entry)],
           added |-> TRUE]

\* The version number link_segmentation assigns, counting the versions
\* instead of taking the latest.
LinkVersion_counted(vols, vol_base, seg_base) ==
  LET version == extract_version_number(seg_base, vol_base)
  IN IF version # None THEN version
     ELSE Len(get_all_versions(vols, vol_base)) + 1

\* The version number link_segmentation assigns.
LinkVersion(vols, vol_base, seg_base) ==
  LET version == extract_version_number(seg_base, vol_base)
      latest == get_latest_version(vols, vol_base)
  IN IF version # None THEN version
     ELSE IF latest = None THEN 1 ELSE latest + 1

\* link_segmentation renaming the file before the geometry check.
link_segmentation_renaming_first(vols, st, vfiles, sfiles, volume_fname, seg_fname, geometry_ok, takes_hash, now) ==
  LET e1 == IF ~EndsWith(volume_fname, vext)
            THEN <<Msg("Volume file does not end with vext", <<>>, volume_fname)>> ELSE <<>>
      e2 == IF ~EndsWith(seg_fname, sext)
            THEN <<Msg("Segmentation file does not end with sext", <<>>, seg_fname)>> ELSE <<>>
      vol_base == DropExt(volume_fname, vext)
      seg_base == DropExt(seg_fname, sext)
      e3 == IF vol_base \notin vfiles
            THEN <<Msg("Volume file not found", vol_base, <<>>)>> ELSE <<>>
      e4 == IF seg_base \notin sfiles
            THEN <<Msg("Segmentation file not found", <<>>, seg_base)>> ELSE <<>>
      version == LinkVersion(vols, vol_base, seg_base)
      target == vol_base \o <<"-">> \o VToken(version)
      renamed == IF target # seg_base THEN (sfiles \ {seg_base}) \cup {target} ELSE sfiles
      r == add_volume_version(vols, vol_base, VToken(version), now, now)
      withHash == [r.volumes EXCEPT ![vol_base].versions =
                     [i \in 1..Len(@) |->
                        IF r.added /\ i = Len(@) THEN [@[i] EXCEPT !.hash = hash_image(target)]
                        ELSE @[i]]]
  IN IF e1 \o e2 # <<>> THEN Outcome(vols, st, sfiles, <<>>, <<>>, e1 \o e2, "")
     ELSE IF e3 \o e4 # <<>> THEN Outcome(vols, st, sfiles, <<>>, <<>>, e3 \o e4, "")
     ELSE IF target # seg_base /\ target \in sfiles
     THEN Outcome(vols, st, sfiles, <<>>, <<>>,
                  <<Msg("Target segmentation name already exists", vol_base, target)>>, "")
     ELSE IF ~geometry_ok THEN Outcome(vols, st, renamed, <<>>, <<>>, <<>>, "ImageDataMatchingError")
     ELSE IF ~takes_hash THEN Outcome(vols, st, renamed, <<>>, <<>>, <<>>, "TypeError")
     ELSE IF r.added
     THEN Outcome(withHash, withHash, renamed,
                  <<Msg("Entry added to index", vol_base, VToken(version)),
                    Msg("Attached segmentation to volume", vol_base, target)>>, <<>>, <<>>, "")
     ELSE Outcome(withHash, withHash, renamed, <<>>,
                  <<Msg("already present in index (nothing added)", vol_base, VToken(version))>>,
                  <<>>, "")

\* geometry_ok: check_geometry finds the two images consistent.
\* takes_hash: the manifest module on the import path has an
\* add_volume_version that accepts the keyword hash= of the call at line 298;
\* the one of volsegSync/manifest.py does not, and the call raises TypeError.
link_segmentation(vols, st, vfiles, sfiles, volume_fname, seg_fname, geometry_ok, takes_hash, now) ==
  LET e1 == IF ~EndsWith(volume_fname, vext)
            THEN <<Msg("Volume file does not end with vext", <<>>, volume_fname)>> ELSE <<>>
      e2 == IF ~EndsWith(seg_fname, sext)
            THEN <<Msg("Segmentation file does not end with sext", <<>>, seg_fname)>> ELSE <<>>
      vol_base == DropExt(volume_fname, vext)
      seg_base == DropExt(seg_fname, sext)
      e3 == IF vol_base \notin vfiles
            THEN <<Msg("Volume file not found", vol_base, <<>>)>> ELSE <<>>
      e4 == IF seg_base \notin sfiles
            THEN <<Msg("Segmentation file not found", <<>>, seg_base)>> ELSE <<>>
      version == LinkVersion(vols, vol_base, seg_base)
      target == vol_base \o <<"-">> \o VToken(version)
      renamed == IF target # seg_base THEN (sfiles \ {seg_base}) \cup {target} ELSE sfiles
      r == add_volume_version(vols, vol_base, VToken(version), now, now)
      withHash == [r.volumes EXCEPT ![vol_base].versions =
                     [i \in 1..Len(@) |->
                        IF r.added /\ i = Len(@) THEN [@[i] EXCEPT !.hash = hash_image(target)]
                        ELSE @[i]]]
  IN IF e1 \o e2 # <<>> THEN Outcome(vols, st, sfiles, <<>>, <<>>, e1 \o e2, "")
     ELSE IF e3 \o e4 # <<>> THEN Outcome(vols, st, sfiles, <<>>, <<>>, e3 \o e4, "")
     ELSE IF ~geometry_ok THEN Outcome(vols, st, sfiles, <<>>, <<>>, <<>>, "ImageDataMatchingError")
     ELSE IF target # seg_base /\ target \in sfiles
     THEN Outcome(vols, st, sfiles, <<>>, <<>>,
                  <<Msg("Target segmentation name already exists", vol_base, target)>>, "")
     ELSE IF ~takes_hash THEN Outcome(vols, st, renamed, <<>>, <<>>, <<>>, "TypeError")
     ELSE IF r.added
     THEN Outcome(withHash, withHash, renamed,
                  <<Msg("Entry added to index", vol_base, VToken(version)),
                    Msg("Attached segmentation to volume", vol_base, target)>>, <<>>, <<>>, "")
     ELSE Outcome(withHash, withHash, renamed, <<>>,
                  <<Msg("already present in index (nothing added)", vol_base, VToken(version))>>,
                  <<>>, "")


\* The header line of the exported file.
CsvHeader == [volume |-> "VOLUME FILE", segmentation |-> "SEGMENTATION FILE"]

\* str.lower() on the characters a file name is written with here.
Lower(s) == [i \in 1..Len(s) |-> IF s[i] = ".CSV" THEN ".csv" ELSE s[i]]

\* commons.validate_csv_path: dir_exists says os.path.isdir of the path's
\* directory, filename is the path's last component.
validate_csv_path(dir_exists, filename) ==
  (IF ~dir_exists THEN <<Msg("Directory does not exist", <<>>, <<>>)>> ELSE <<>>)
  \o (IF ~EndsWith(Lower(filename), <<".csv">>)
      THEN <<Msg("File does not have a .csv extension", <<>>, filename)>> ELSE <<>>)

\* export_index that writes the header when there is nothing to export.
export_index_unguarded(vols, dir_exists, filename) ==
  LET errors == validate_csv_path(dir_exists, filename)
      volume_seg_tuples == get_volume_seg_tuples(vols)
  IN IF Len(errors) > 0 THEN [log |-> <<>>, raised |-> "SegVerException", csv |-> Null]
     ELSE [log |-> <<Msg("Exporting volume-segmentation pairs", <<>>, <<>>),
                     Msg("Exported to", <<>>, <<>>)>>,
           raised |-> "",
           csv |-> <<CsvHeader>> \o
                   [i \in 1..Len(volume_seg_tuples) |->
                      [volume |-> RStrip(volume_seg_tuples[i].vol_file),
                       segmentation |-> RStrip(volume_seg_tuples[i].seg_file)]]]

\* export_index: csv is the file written, a sequence of lines of two fields,
\* or Null when none is written.
export_index(vols, dir_exists, filename) ==
  LET errors == validate_csv_path(dir_exists, filename)
      volume_seg_tuples == get_volume_seg_tuples(vols)
  IN IF Len(errors) > 0 THEN [log |-> <<>>, raised |-> "SegVerException", csv |-> Null]
     ELSE IF volume_seg_tuples = <<>>
     THEN [log |-> <<>>, raised |-> "SegVerException", csv |-> Null]
     ELSE [log |-> <<Msg("Exporting volume-segmentation pairs", <<>>, <<>>),
                     Msg("Exported to", <<>>, <<>>)>>,
           raised |-> "",
           csv |-> <<CsvHeader>> \o
                   [i \in 1..Len(volume_seg_tuples) |->
                      [volume |-> RStrip(volume_seg_tuples[i].vol_file),
                       segmentation |-> RStrip(volume_seg_tuples[i].seg_file)]]]

\* str.split(','): the pieces between the commas.
RECURSIVE SplitComma(_)
SplitComma(s) ==
  IF \A i \in 1..Len(s) : s[i] # ","
  THEN <<s>>
  ELSE LET i == CHOOSE k \in 1..Len(s) : s[k] = "," /\ \A j \in 1..(k - 1) : s[j] # ","
       IN <<SubSeq(s, 1, i - 1)>> \o SplitComma(SubSeq(s, i + 1, Len(s)))

\* [tag.strip() for tag in seg_tags.split(',')]
TagList(seg_tags) ==
  [k \in 1..Len(SplitComma(seg_tags)) |-> Strip(SplitComma(seg_tags)[k])]

\* The loop that takes any record when none has the token.
FirstWith_any(versions, seg_version) ==
  IF \E i \in 1..Len(versions) : versions[i].version = seg_version
  THEN CHOOSE i \in 1..Len(versions) :
         /\ versions[i].version = seg_version
         /\ \A j \in 1..(i - 1) : versions[j].version # seg_version
  ELSE Len(versions)

\* The index of the record at which the loop over the versions stops: the
\* first one with the token, or 0 when the loop ends without finding one.
FirstWith(versions, seg_version) ==
  IF \E i \in 1..Len(versions) : versions[i].version = seg_version
  THEN CHOOSE i \in 1..Len(versions) :
         /\ versions[i].version = seg_version
         /\ \A j \in 1..(i - 1) : versions[j].version # seg_version
  ELSE 0

\* update_segmentation_metadata. seg_tags is the text typed, a str, and the
\* record's tags a list: seg_tags != v.get("tags", []) is True for every text.
update_segmentation_metadata(vols, st, volume_fname, seg_version, seg_author, seg_notes, seg_tags, now) ==
  LET vol_base == DropExt(volume_fname, vext)
  IN IF vol_base \notin DOMAIN vols
     THEN [volumes |-> vols, stored |-> st, log |-> <<>>, warnings |-> <<>>,
           errors |-> <<Msg("Volume not found in manifest", vol_base, <<>>)>>, raised |-> ""]
     ELSE
       LET versions == vols[vol_base].versions
           i == FirstWith(versions, seg_version)
       IN IF i = 0
          THEN [volumes |-> vols, stored |-> st, log |-> <<>>, warnings |-> <<>>,
                errors |-> <<Msg("Version not found for volume", vol_base, seg_version)>>,
                raised |-> ""]
          ELSE
            LET v == versions[i]
                new_author == seg_author # "" /\ seg_author # v.author
                new_notes == seg_notes # "" /\ seg_notes # v.notes
                new_tags == seg_tags # <<>>
                changes_made == new_author \/ new_notes \/ new_tags
                w == [v EXCEPT !.author = IF new_author THEN seg_author ELSE @,
                               !.notes = IF new_notes THEN seg_notes ELSE @,
                               !.tags = IF new_tags THEN TagList(seg_tags) ELSE @,
                               !.lu = IF changes_made THEN now ELSE @]
                updated == [vols EXCEPT ![vol_base].versions[i] = w]
            IN [volumes |-> updated, stored |-> updated,
                log |-> <<Msg(IF new_author THEN "New author" ELSE "Author (unchanged)",
                              vol_base, seg_version),
                          Msg(IF new_notes THEN "New notes" ELSE "Notes (unchanged)",
                              vol_base, seg_version),
                          Msg(IF new_tags THEN "New tags" ELSE "Tags (unchanged)",
                              vol_base, seg_version),
                          Msg(IF changes_made THEN "Last updated" ELSE "No changes made",
                              vol_base, seg_version),
                          Msg("Metadata updated", vol_base, seg_version)>>,
                warnings |-> <<>>, errors |-> <<>>, raised |-> ""]

\* create_index on a service object svc whose manifest holds vols: m is what
\* verify_volseg_match returns for the directories given.
create_index(svc, vols, index_name, m) ==
  IF index_name \in Range(svc.available_indexes)
  THEN [service |-> svc, volumes |-> vols, log |-> <<>>, warnings |-> <<>>,
        errors |-> <<>>, raised |-> "SegVerException"]
  ELSE [service |->
          [svc EXCEPT !.config = [available |-> IF @.available # <<>>
                                                THEN @.available \o index_name
                                                ELSE index_name,
                                  active |-> index_name],
                      !.active_index = index_name,
                      !.index_name = index_name],
        volumes |-> m.volumes,
        log |-> m.log \o <<Msg("created and activated successfully", <<>>, index_name)>>,
        warnings |-> m.warnings, errors |-> m.errors, raised |-> ""]

\* select_index that activates the index and keeps the manifest object it had.
select_index_stale(svc, vols, manifests, index_name) ==
  IF index_name \notin Range(svc.available_indexes)
  THEN [service |-> svc, volumes |-> vols, saved |-> FALSE, log |-> <<>>,
        raised |-> "SegVerException"]
  ELSE IF index_name = svc.active_index
  THEN [service |-> svc, volumes |-> vols, saved |-> FALSE,
        log |-> <<Msg("is already active", <<>>, index_name)>>, raised |-> ""]
  ELSE IF index_name \notin DOMAIN manifests
  THEN [service |-> svc, volumes |-> vols, saved |-> FALSE, log |-> <<>>,
        raised |-> "VolSegException"]
  ELSE [service |-> [svc EXCEPT !.config.active = index_name,
                                !.active_index = index_name],
        volumes |-> vols, saved |-> TRUE,
        log |-> <<Msg("activated successfully", <<>>, index_name)>>, raised |-> ""]

\* select_index without the test of the available indexes.
select_index_unchecked(svc, vols, manifests, index_name) ==
  IF index_name = svc.active_index
  THEN [service |-> svc, volumes |-> vols, saved |-> FALSE,
        log |-> <<Msg("is already active", <<>>, index_name)>>, raised |-> ""]
  ELSE IF index_name \notin DOMAIN manifests
  THEN [service |-> svc, volumes |-> vols, saved |-> FALSE, log |-> <<>>,
        raised |-> "VolSegException"]
  ELSE [service |-> [svc EXCEPT !.config.active = index_name,
                                !.active_index = index_name,
                                !.index_name = index_name],
        volumes |-> manifests[index_name], saved |-> TRUE,
        log |-> <<Msg("activated successfully", <<>>, index_name)>>, raised |-> ""]

\* select_index that keeps the manifest it had in memory.
select_index_keeping(svc, vols, manifests, index_name) ==
  IF index_name \notin Range(svc.available_indexes)
  THEN [service |-> svc, volumes |-> vols, saved |-> FALSE, log |-> <<>>,
        raised |-> "SegVerException"]
  ELSE IF index_name = svc.active_index
  THEN [service |-> svc, volumes |-> vols, saved |-> FALSE,
        log |-> <<Msg("is already active", <<>>, index_name)>>, raised |-> ""]
  ELSE IF index_name \notin DOMAIN manifests
  THEN [service |-> svc, volumes |-> vols, saved |-> FALSE, log |-> <<>>,
        raised |-> "VolSegException"]
  ELSE [service |-> [svc EXCEPT !.config.active = index_name,
                                !.active_index = index_name,
                                !.index_name = index_name],
        volumes |-> vols, saved |-> TRUE,
        log |-> <<Msg("activated successfully", <<>>, index_name)>>, raised |-> ""]

\* select_index: manifests are the manifest files by index name; saved says
\* whether save_config wrote svc's configuration.
select_index(svc, vols, manifests, index_name) ==
  IF index_name \notin Range(svc.available_indexes)
  THEN [service |-> svc, volumes |-> vols, saved |-> FALSE, log |-> <<>>,
        raised |-> "SegVerException"]
  ELSE IF index_name = svc.active_index
  THEN [service |-> svc, volumes |-> vols, saved |-> FALSE,
        log |-> <<Msg("is already active", <<>>, index_name)>>, raised |-> ""]
  ELSE IF index_name \notin DOMAIN manifests
  THEN [service |-> svc, volumes |-> vols, saved |-> FALSE, log |-> <<>>,
        raised |-> "VolSegException"]
  ELSE [service |-> [svc EXCEPT !.config.active = index_name,
                                !.active_index = index_name,
                                !.index_name = index_name],
        volumes |-> manifests[index_name], saved |-> TRUE,
        log |-> <<Msg("activated successfully", <<>>, index_name)>>, raised |-> ""]

\* save_index: save_manifest writes the file named after the manifest's
\* index-name, save_config the configuration of the service object.
save_index(svc, vols, manifests) ==
  [manifests |-> [n \in DOMAIN manifests \cup {svc.index_name} |->
                    IF n = svc.index_name THEN vols ELSE manifests[n]],
   config |-> svc.config]

\* ------------------------------------------------------------ the inputs

A == <<"A">>

B == <<"B">>

C == <<"C">>

Seg(vol_name, digits) == vol_name \o <<"-", "v">> \o digits

\* Volume B and its segmentation B-v1 stay on disk; volume A comes and goes.
FixedVolumes == {B}

FixedSegs == {Seg(B, <<"1">>)}

VolNames == {A}

\* Segmentations of A that come and go: A-v1 and A-v01 carry the same number.
SegNames == {Seg(A, <<"1">>), Seg(A, <<"0", "1">>), Seg(A, <<"2">>)}

\* Segmentations of A whose names are the ones link_segmentation writes.
CanonicalSegNames == {Seg(A, <<"1">>), Seg(A, <<"2">>), Seg(A, <<"3">>)}

\* Segmentations to link: versioned ones with a gap, and one without a version.
LinkSegNames == {Seg(A, <<"1">>), Seg(A, <<"3">>), <<"T">>}

\* Segmentations whose numbers compare differently as numbers and as strings.
WideSegNames == {Seg(A, <<"2">>), Seg(A, <<"9">>), Seg(A, <<"1", "0">>)}

\* The volume base names given to the matcher: one is a prefix of another.
MatchVolNames == {A, B, Seg(A, <<"1">>)}

\* The segmentation base names given to the matcher: versions of A, a version
\* of the absent C, a version of the volume A-v1, and names that differ from
\* a version name of A by a missing number, a trailing character, the case of
\* the v, or a trailing newline.
MatchSegNames ==
  {Seg(A, <<"1">>), Seg(A, <<"2">>), Seg(C, <<"1">>), Seg(Seg(A, <<"1">>), <<"2">>),
   Seg(A, <<>>), Seg(A, <<"1", "a">>), A \o <<"-", "V", "1">>, Seg(A, <<"1", Newline>>)}

\* The orders in which os.walk may list the segmentations. The matcher's
\* result depends on the order only through the relative order of two names
\* with the same version number; no set of names here has more than two.
Walks(S) == {SetToSeq(S), Reverse(SetToSeq(S))}

\* Volume file names typed by the user.
VolumeFnames == {A \o vext, B \o vext, C \o vext, A \o sext}

\* Version tokens typed by the user.
TypedTokens ==
  {<<"v", "1">>, <<"v", "2">>, <<"v", "0", "1">>, <<" ", "v", "1", " ">>,
   <<"v">>, <<"1">>, <<"V", "1">>, <<"v", "1", "a">>, <<"v", "sup2">>, <<>>}

\* Names typed for the exported file.
CsvFilenames == {<<"out", ".csv">>, <<"out", ".CSV">>, <<"out", ".txt">>, <<"out">>}

\* The segmentations next to which an instance is initialized before an
\* export: C-v1 has no volume.
ExportSegNames == {Seg(A, <<"1">>), Seg(A, <<"2">>), Seg(C, <<"1">>), Seg(B, <<"1">>)}

\* The default index name of the init command.
DefaultIndex == <<"index">>

\* Index names typed by the user: "a,b" holds a comma.
IndexNames == {DefaultIndex, <<"a">>, <<"a", "b">>, <<"b">>}

\* The segmentations that come and go around the index commands.
IndexSegNames == {Seg(A, <<"1">>)}

\* The segmentations of the instances whose metadata is edited.
MetaSegNames == {Seg(A, <<"1">>)}

\* What the user types for the metadata of a version: nothing, or a value.
MetaAuthors == {"", "ann"}

MetaNotes == {"", "checked"}

MetaTags == {<<>>, <<"x">>, <<" ", "x", ",", "y">>}

MetaTokens == {<<"v", "1">>, <<"v", "2">>}

MetaVolumeFnames == {A \o vext, C \o vext}

\* Segmentations of two subjects that come and go: A-v1 and A-v01 carry the
\* same number, B-v2 is a second version of B.
OrderSegNames == {Seg(A, <<"1">>), Seg(A, <<"0", "1">>), Seg(B, <<"2">>)}

\* Segmentations that come and go between the commands that save the manifest.
SavingSegNames == {Seg(A, <<"1">>), Seg(A, <<"0", "1">>)}

\* Version tokens passed to remove_volume_version.
RemovedTokens == {<<"v", "1">>, <<"v", "2">>, <<"v", "3">>, <<"v", "9">>, <<"v", "1", "0">>}

\* -------------------------------------------------------------- the state

VARIABLES
  volDir,     \* the volumes directory exists
  volFiles,   \* base names of the volume files in it
  segDir,     \* the segmentations directory exists
  segFiles,   \* base names of the segmentation files in it
  manifest,   \* KomsService._manifest["volumes"] of the service object of the last
              \* command; between commands, what the next service object loads
  stored,     \* "volumes" of the manifest file of the active index
  clock,      \* the UTC time
  last,       \* the last step: its name and the kinds of the messages it returned
  config,     \* the [index] section of the config file: available and active
  files,      \* "volumes" of the manifest files of the indexes other than the
              \* one the config file names active, by index name
  service     \* the fields of the KomsService object that name indexes

vars == <<volDir, volFiles, segDir, segFiles, manifest, stored, clock, last,
          config, files, service>>

instance == <<config, files, service>>

disk == <<volDir, volFiles, segDir, segFiles>>

\* The directory listings as os.path.isfile and search_files_in see them.
VFiles == IF volDir THEN volFiles ELSE {}

SFiles == IF segDir THEN segFiles ELSE {}

Kinds(msgs) == {msgs[i].kind : i \in 1..Len(msgs)}

Last(op, log, warnings, errors, raised) ==
  [op |-> op, log |-> Kinds(log), warnings |-> Kinds(warnings), errors |-> Kinds(errors),
   raised |-> raised]

\* An index name is the sequence of the parts that its commas separate: the
\* text of config['index']['available'] is then the sequence of the parts of
\* the names joined in it, and str.split(',') gives one name per part.
Split(available) == [i \in 1..Len(available) |-> <<available[i]>>]

\* KomsService.__init__: the fields read from the config file.
Loaded(cfg) ==
  [active_index |-> cfg.active, available_indexes |-> Split(cfg.available),
   config |-> cfg, index_name |-> cfg.active]

\* initialize_instance with the default index name, and a service object on it.
FirstIndex ==
  /\ config = [available |-> DefaultIndex, active |-> DefaultIndex]
  /\ files = [n \in {} |-> Null]
  /\ service = Loaded(config)

\* KomsService.initialize_instance: the matcher's result becomes the manifest
\* of the first index and is saved. It returns early on a matcher error.
InitOn(volumes, segs) ==
  /\ volDir = TRUE /\ segDir = TRUE
  /\ \E vs \in SUBSET volumes : volFiles = FixedVolumes \cup vs
  /\ \E ss \in SUBSET segs : segFiles = FixedSegs \cup ss
  /\ clock = 0
  /\ \E walk \in Walks(segFiles) :
       manifest = verify_volseg_match(volDir, volFiles, segDir, segFiles, walk, clock).volumes
  /\ stored = manifest
  /\ last = Last("initialize_instance", <<>>, <<>>, <<>>, "")
  /\ FirstIndex

Init == InitOn(VolNames, SegNames)

\* ------------------------------------------------------ the environment

\* Files appear in and vanish from the two directories between commands: the
\* process of the last command has ended, and its service object with it.
AddVolume ==
  /\ volDir
  /\ \E n \in VolNames \ volFiles : volFiles' = volFiles \cup {n}
  /\ last' = Last("disk", <<>>, <<>>, <<>>, "")
  /\ manifest' = stored
  /\ UNCHANGED <<instance, volDir, segDir, segFiles, stored, clock>>

RemoveVolume ==
  /\ \E n \in volFiles \ FixedVolumes : volFiles' = volFiles \ {n}
  /\ last' = Last("disk", <<>>, <<>>, <<>>, "")
  /\ manifest' = stored
  /\ UNCHANGED <<instance, volDir, segDir, segFiles, stored, clock>>

AddSegmentationFrom(names) ==
  /\ segDir
  /\ \E n \in names \ segFiles : segFiles' = segFiles \cup {n}
  /\ last' = Last("disk", <<>>, <<>>, <<>>, "")
  /\ manifest' = stored
  /\ UNCHANGED <<instance, volDir, volFiles, segDir, stored, clock>>

AddSegmentation == AddSegmentationFrom(SegNames)

RemoveSegmentation ==
  /\ \E n \in segFiles \ FixedSegs : segFiles' = segFiles \ {n}
  /\ last' = Last("disk", <<>>, <<>>, <<>>, "")
  /\ manifest' = stored
  /\ UNCHANGED <<instance, volDir, volFiles, segDir, stored, clock>>

\* A directory is removed with everything in it.
RemoveVolumesDir ==
  /\ volDir
  /\ volDir' = FALSE /\ volFiles' = {}
  /\ last' = Last("disk", <<>>, <<>>, <<>>, "")
  /\ manifest' = stored
  /\ UNCHANGED <<instance, segDir, segFiles, stored, clock>>

RemoveSegmentationsDir ==
  /\ segDir
  /\ segDir' = FALSE /\ segFiles' = {}
  /\ last' = Last("disk", <<>>, <<>>, <<>>, "")
  /\ manifest' = stored
  /\ UNCHANGED <<instance, volDir, volFiles, stored, clock>>

\* Every file with the extension leaves a directory.
ClearVolumes ==
  /\ volDir /\ volFiles # {}
  /\ volFiles' = {}
  /\ last' = Last("disk", <<>>, <<>>, <<>>, "")
  /\ manifest' = stored
  /\ UNCHANGED <<instance, volDir, segDir, segFiles, stored, clock>>

ClearSegmentations ==
  /\ segDir /\ segFiles # {}
  /\ segFiles' = {}
  /\ last' = Last("disk", <<>>, <<>>, <<>>, "")
  /\ manifest' = stored
  /\ UNCHANGED <<instance, volDir, volFiles, segDir, stored, clock>>

\* Time passes.
Tick ==
  /\ clock < MaxClock
  /\ clock' = clock + 1
  /\ UNCHANGED <<instance, volDir, volFiles, segDir, segFiles, manifest, stored, last>>

\* --------------------------------------------------------- the commands
\* Every command constructs its KomsService, whose __init__ loads the
\* persisted manifest of the active index: a command starts from stored.

\* The update command going on to the reconciliation whatever the matcher reported.
UpdateWith_reconciling(walk, confirm, seg_order) ==
  LET m == verify_volseg_match(volDir, volFiles, segDir, segFiles, walk, clock)
      r == update_index(stored, m.volumes, seg_order)
  IN /\ seg_order \in Orders(RemovedSegs(stored, m.volumes))
     /\ manifest' = r.volumes
     /\ stored' = IF r.raised THEN stored ELSE r.volumes
     /\ last' = Last("update", r.log, <<>>, <<>>,
                     IF r.raised THEN "RuntimeError" ELSE "")
     /\ UNCHANGED <<instance, disk, clock>>

\* The update command with the directory-walk order and the iteration order
\* of removed_segs given: get_volseg_matches, then (unless the matcher
\* reported an error or the user declines after a warning)
\* KomsService.update_index, which saves what commons.update_index returns.
UpdateWith(walk, confirm, seg_order) ==
  LET m == verify_volseg_match(volDir, volFiles, segDir, segFiles, walk, clock)
      r == update_index(stored, m.volumes, seg_order)
  IN IF m.errors # <<>>
     THEN /\ manifest' = stored
          /\ last' = Last("update aborted", <<>>, <<>>, m.errors, "")
          /\ UNCHANGED <<instance, disk, stored, clock>>
     ELSE IF m.warnings # <<>> /\ ~confirm
     THEN /\ manifest' = stored
          /\ last' = Last("update declined", <<>>, m.warnings, <<>>, "")
          /\ UNCHANGED <<instance, disk, stored, clock>>
     ELSE /\ seg_order \in Orders(RemovedSegs(stored, m.volumes))
          /\ manifest' = r.volumes
          /\ stored' = IF r.raised THEN stored ELSE r.volumes
          /\ last' = Last("update", r.log, <<>>, <<>>,
                          IF r.raised THEN "RuntimeError" ELSE "")
          /\ UNCHANGED <<instance, disk, clock>>

Update ==
  \E walk \in Walks(segFiles), confirm \in BOOLEAN :
    \E seg_order \in Orders(RemovedSegs(stored,
         verify_volseg_match(volDir, volFiles, segDir, segFiles, walk, clock).volumes)) :
      UpdateWith(walk, confirm, seg_order)

SelectWith(volume_fname, seg_version) ==
  LET r == select_segmentation(stored, stored, VFiles, SFiles, volume_fname, seg_version)
  IN /\ manifest' = r.volumes
     /\ stored' = r.stored
     /\ last' = Last("select_segmentation", r.log, r.warnings, r.errors, r.raised)
     /\ UNCHANGED <<instance, disk, clock>>

SelectSegmentation ==
  \E volume_fname \in VolumeFnames, seg_version \in TypedTokens :
    SelectWith(volume_fname, seg_version)

LinkWith(volume_fname, seg_fname, geometry_ok, takes_hash) ==
  LET r == link_segmentation(stored, stored, VFiles, SFiles, volume_fname, seg_fname,
                             geometry_ok, takes_hash, clock)
  IN /\ manifest' = r.volumes
     /\ stored' = r.stored
     /\ segFiles' = r.sfiles
     /\ last' = Last("link_segmentation", r.log, r.warnings, r.errors, r.raised)
     /\ UNCHANGED <<instance, volDir, volFiles, segDir, clock>>

\* A segmentation of A on disk, or a file that is not there, is linked.
LinkVolumeFnames == {A \o vext, C \o vext, A \o sext}

LinkSegFnames == {n \o sext : n \in (segFiles \ FixedSegs) \cup {<<"T">>}} \cup {<<"T">> \o vext}

LinkSegmentation ==
  \E volume_fname \in LinkVolumeFnames, seg_fname \in LinkSegFnames,
     geometry_ok \in BOOLEAN, takes_hash \in BOOLEAN :
    /\ LinkVersion(stored, DropExt(volume_fname, vext), DropExt(seg_fname, sext)) <= MaxVersion
    /\ LinkWith(volume_fname, seg_fname, geometry_ok, takes_hash)

\* manifest.remove_volume_version called on the manifest in memory.
RemoveWith(subject_key, version) ==
  LET r == remove_volume_version(manifest, subject_key, version)
  IN /\ manifest' = r.volumes
     /\ last' = Last("remove_volume_version",
                     IF r.log = "" THEN <<>> ELSE <<Msg(r.log, subject_key, r.latest)>>,
                     <<>>, <<>>, "")
     /\ UNCHANGED <<instance, disk, stored, clock>>

RemoveVolumeVersion ==
  \E subject_key \in {A, B, C}, version \in RemovedTokens :
    RemoveWith(subject_key, version)

\* The export command: the service object loads the persisted manifest.
ExportWith(dir_exists, filename) ==
  LET r == export_index(stored, dir_exists, filename)
  IN /\ manifest' = stored
     /\ last' = [op |-> "export_index", log |-> Kinds(r.log), warnings |-> {},
                 errors |-> {}, raised |-> r.raised, csv |-> r.csv]
     /\ UNCHANGED <<instance, disk, stored, clock>>

ExportIndex ==
  \E dir_exists \in BOOLEAN, filename \in CsvFilenames : ExportWith(dir_exists, filename)

\* The manifest files by index name.
Manifests ==
  [n \in DOMAIN files \cup {config.active} |-> IF n = config.active THEN stored ELSE files[n]]

\* The files as the variables hold them once the config file names active.
Persist(manifests, cfg) ==
  /\ config' = cfg
  /\ stored' = manifests[cfg.active]
  /\ files' = [n \in DOMAIN manifests \ {cfg.active} |-> manifests[n]]

\* A command starts: KomsService.__init__ reads the config file and loads
\* the manifest of the active index.
NewService ==
  /\ service' = Loaded(config)
  /\ manifest' = stored
  /\ last' = Last("KomsService", <<>>, <<>>, <<>>, "")
  /\ UNCHANGED <<disk, stored, clock, config, files>>

\* create_index on the service object, for the directories of the instance.
CreateWith(index_name, walk) ==
  LET m == verify_volseg_match(volDir, volFiles, segDir, segFiles, walk, clock)
      r == create_index(service, manifest, index_name, m)
  IN /\ service' = r.service
     /\ manifest' = r.volumes
     /\ last' = Last("create_index", r.log, r.warnings, r.errors, r.raised)
     /\ UNCHANGED <<disk, stored, clock, config, files>>

CreateIndex ==
  \E index_name \in IndexNames, walk \in Walks(SFiles) :
    /\ Len(service.config.available) + Len(index_name) <= MaxAvailable
    /\ CreateWith(index_name, walk)

\* select_index on the service object.
SelectIndexWith(index_name) ==
  LET r == select_index(service, manifest, Manifests, index_name)
  IN /\ service' = r.service
     /\ manifest' = r.volumes
     /\ last' = Last("select_index", r.log, <<>>, <<>>, r.raised)
     /\ IF r.saved THEN Persist(Manifests, r.service.config)
        ELSE UNCHANGED <<stored, config, files>>
     /\ UNCHANGED <<disk, clock>>

SelectIndex == \E index_name \in IndexNames : SelectIndexWith(index_name)

\* save_index on the service object.
SaveIndex ==
  LET r == save_index(service, manifest, Manifests)
  IN /\ Persist(r.manifests, r.config)
     /\ last' = Last("save_index", <<Msg("saved successfully", <<>>, service.index_name)>>,
                     <<>>, <<>>, "")
     /\ UNCHANGED <<disk, clock, manifest, service>>

\* The command that edits the metadata of a version.
MetadataWith(volume_fname, seg_version, seg_author, seg_notes, seg_tags) ==
  LET r == update_segmentation_metadata(stored, stored, volume_fname, seg_version,
                                        seg_author, seg_notes, seg_tags, clock)
  IN /\ manifest' = r.volumes
     /\ stored' = r.stored
     /\ last' = Last("update_segmentation_metadata", r.log, r.warnings, r.errors, r.raised)
     /\ UNCHANGED <<instance, disk, clock>>

UpdateSegmentationMetadata ==
  \E volume_fname \in MetaVolumeFnames, seg_version \in MetaTokens,
     seg_author \in MetaAuthors, seg_notes \in MetaNotes, seg_tags \in MetaTags :
    MetadataWith(volume_fname, seg_version, seg_author, seg_notes, seg_tags)

Next ==
  \/ AddVolume \/ RemoveVolume \/ AddSegmentation \/ RemoveSegmentation
  \/ Update \/ SelectSegmentation \/ LinkSegmentation \/ RemoveVolumeVersion

Spec == Init /\ [][Next]_vars

\* Reconciliation alone, over segmentation names without leading zeros
\* and with time passing between the commands.
InitCanonical == InitOn(VolNames, CanonicalSegNames)

AddCanonical == AddSegmentationFrom(CanonicalSegNames)

NextCanonical ==
  \/ AddVolume \/ RemoveVolume \/ AddCanonical \/ RemoveSegmentation \/ Tick \/ Update

SpecCanonical == InitCanonical /\ [][NextCanonical]_vars


\* Selections against a manifest and a disk content that drift apart.
NextSelect ==
  \/ AddVolume \/ RemoveVolume \/ AddSegmentation \/ RemoveSegmentation
  \/ Update \/ SelectSegmentation

SpecSelect == Init /\ [][NextSelect]_vars

\* The two commands that add versions, against a drifting disk.
NextAdd ==
  \/ AddVolume \/ RemoveVolume \/ AddSegmentation \/ RemoveSegmentation
  \/ Update \/ LinkSegmentation

SpecAdd == Init /\ [][NextAdd]_vars

\* Links of files that appear on disk after the index was initialised.
InitLink == InitOn(VolNames, LinkSegNames)

AddLinkable == AddSegmentationFrom(LinkSegNames)

NextLink == AddVolume \/ RemoveVolume \/ AddLinkable \/ LinkSegmentation

SpecLink == InitLink /\ [][NextLink]_vars

\* Selections and removals over versions 2, 9 and 10 of A.
WideTokens == {<<"v", "2">>, <<"v", "9">>, <<"v", "1", "0">>}

InitRemove == InitOn(VolNames, WideSegNames)

SelectWide == \E seg_version \in WideTokens : SelectWith(A \o vext, seg_version)

NextRemove == SelectWide \/ RemoveVolumeVersion

SpecRemove == InitRemove /\ [][NextRemove]_vars

\* The commands that change the selection, and the export.
NextExport ==
  \/ AddSegmentation \/ RemoveSegmentation
  \/ Update \/ SelectSegmentation \/ ExportIndex

SpecExport == Init /\ [][NextExport]_vars

\* KomsService.initialize_instance next to any files: the user confirms the
\* warnings, and an index without any volume results when nothing matches.
InitExport ==
  /\ volDir = TRUE /\ segDir = TRUE
  /\ volFiles \in (SUBSET {A, B}) \ {{}}
  /\ segFiles \in (SUBSET ExportSegNames) \ {{}}
  /\ clock = 0
  /\ \E walk \in Walks(segFiles) :
       manifest = verify_volseg_match(volDir, volFiles, segDir, segFiles, walk, clock).volumes
  /\ stored = manifest
  /\ last = Last("initialize_instance", <<>>, <<>>, <<>>, "")
  /\ FirstIndex

NextExportAny == AddVolume \/ RemoveVolume \/ ExportIndex

SpecExportAny == InitExport /\ [][NextExportAny]_vars

\* The instance was initialized with the default index when the
\* segmentations directory held some of the files; it holds others now.
InitIndex ==
  /\ volDir = TRUE /\ segDir = TRUE
  /\ volFiles = FixedVolumes \cup VolNames
  /\ \E ss \in SUBSET IndexSegNames : segFiles = FixedSegs \cup ss
  /\ clock = 0
  /\ \E ss \in SUBSET IndexSegNames :
       manifest = verify_volseg_match(volDir, volFiles, segDir, FixedSegs \cup ss,
                                      SetToSeq(FixedSegs \cup ss), clock).volumes
  /\ stored = manifest
  /\ last = Last("initialize_instance", <<>>, <<>>, <<>>, "")
  /\ FirstIndex

NextIndex == NewService \/ CreateIndex \/ SelectIndex \/ SaveIndex

SpecIndex == InitIndex /\ [][NextIndex]_vars

InitMeta == InitOn(VolNames, MetaSegNames)

NextMeta == Tick \/ UpdateSegmentationMetadata

SpecMeta == InitMeta /\ [][NextMeta]_vars

\* The update command while directories and their files are lost and come back.
AbortSegNames == FixedSegs \cup IndexSegNames

AddAbortable == AddSegmentationFrom(AbortSegNames)

InitAbort == InitOn(VolNames, IndexSegNames)

NextAbort ==
  \/ RemoveVolumesDir \/ RemoveSegmentationsDir \/ ClearVolumes \/ ClearSegmentations
  \/ AddVolume \/ AddAbortable \/ Update

SpecAbort == InitAbort /\ [][NextAbort]_vars

\* Reconciliation over the versions of two subjects.
InitOrder == InitOn(VolNames, OrderSegNames)

AddOrdered == AddSegmentationFrom(OrderSegNames)

NextOrder == AddOrdered \/ RemoveSegmentation \/ Update

SpecOrder == InitOrder /\ [][NextOrder]_vars

\* The four commands that save the manifest they changed.
InitSaving == InitOn(VolNames, SavingSegNames)

AddSaved == AddSegmentationFrom(SavingSegNames)

NextSaving ==
  \/ AddSaved \/ RemoveSegmentation
  \/ Update \/ LinkSegmentation \/ SelectSegmentation \/ UpdateSegmentationMetadata

SpecSaving == InitSaving /\ [][NextSaving]_vars

\* The matcher applied to the directories as drawn: either directory may be
\* missing or hold no file with its extension, and no index exists yet.
InitMatch ==
  /\ volDir \in BOOLEAN /\ segDir \in BOOLEAN
  /\ volFiles \in SUBSET MatchVolNames
  /\ segFiles \in SUBSET MatchSegNames
  /\ clock = 0
  /\ manifest = [s \in {} |-> Null]
  /\ stored = manifest
  /\ last = Last("disk", <<>>, <<>>, <<>>, "")
  /\ FirstIndex

\* KomsService.get_volseg_matches: the matcher's result, returned as it is.
GetVolsegMatches ==
  /\ \E walk \in Walks(SFiles) :
       LET m == verify_volseg_match(volDir, volFiles, segDir, segFiles, walk, clock)
       IN last' = [op |-> "get_volseg_matches", log |-> Kinds(m.log),
                   warnings |-> Kinds(m.warnings), errors |-> Kinds(m.errors),
                   raised |-> "", result |-> m]
  /\ UNCHANGED <<instance, disk, manifest, stored, clock>>

NextMatch == GetVolsegMatches

SpecMatch == InitMatch /\ [][NextMatch]_vars

\* ------------------------------------------------------------ properties

Tokens(vols, s) == Range(get_all_version_strings(vols, s))

RecordsWith(vols, s, token) == SelectSeq(get_all_versions(vols, s), LAMBDA v : v.version = token)

\* I2 for one volumes mapping.
I2(vols) == \A s \in DOMAIN vols : vols[s].selected = Null \/ vols[s].selected \in Tokens(vols, s)

\* I3 for one volumes mapping.
I3(vols) == \A s \in DOMAIN vols : vols[s].versions # <<>>

\* I1 for one volumes mapping: every token is "v" and the decimal digits of a
\* number, and no two records of an entry carry the same token.
I1(vols) ==
  \A s \in DOMAIN vols :
    LET vs == vols[s].versions
    IN /\ \A i \in 1..Len(vs) :
            StartsWith(vs[i].version, <<"v">>) /\ IsDecimal(Rest(vs[i].version))
       /\ \A i, j \in 1..Len(vs) : i # j => vs[i].version # vs[j].version

\* C1: in every reachable state the selected version of every VolumeEntry, in
\* the manifest in memory and in the persisted one, is absent or the token of
\* one of the entry's version records.
C1_SelectedIsAVersion == I2(manifest) /\ I2(stored)

\* An update has removed the selected version of A and re-selected another.
C1_Witness ==
  /\ last.op = "update" /\ last.raised = ""
  /\ "updated selected-version to latest" \in last.log
  /\ A \in DOMAIN stored /\ stored[A].selected \in Tokens(stored, A)

\* C2: in every reachable state no VolumeEntry, in memory or persisted, has
\* an empty list of versions.
C2_NoEmptyEntry == I3(manifest) /\ I3(stored)

\* remove_volume_version has removed the last version of A, and A's entry with it.
C2_Witness ==
  /\ last.op = "remove_volume_version"
  /\ "updated selected-version to latest" \in last.log
  /\ A \in DOMAIN stored /\ A \notin DOMAIN manifest

\* C3: in every manifest that the matcher, the reconciliation or link
\* produce, the tokens of one entry are "v" + a number and pairwise distinct.
C3_TokensUnique == I1(manifest) /\ I1(stored)


\* The version ids of one subject.
Ids(vols, s) == {get_all_versions(vols, s)[i].id : i \in 1..Len(get_all_versions(vols, s))}

\* The FileMatcher results the disk content allows, one per directory-walk order.
Matches == {verify_volseg_match(volDir, volFiles, segDir, segFiles, walk, clock).volumes :
              walk \in Walks(segFiles)}

\* The step is an update command whose update_index ran to completion.
UpdateCompleted == last'.op = "update" /\ last'.raised = "" /\ Update

\* C4: when an update command that ran update_index is followed, with the
\* disk content unchanged, by another update command, the second update_index
\* completes with an empty log and leaves the manifest, in memory and
\* persisted, identical to the one after the first run.
C4_UpdateIdempotent ==
  [][(last.op = "update" /\ last.raised = "" /\ last'.op = "update" /\ Update)
       => (last'.raised = "" /\ last'.log = {} /\ manifest' = stored /\ stored' = stored)]_vars

\* C5: after an update_index that completed, for every subject in both the
\* old manifest and the new data and every token in both, the subject's
\* records with that token are exactly the old manifest's.
C5_SurvivorsUntouched ==
  [][UpdateCompleted =>
       \E new \in Matches :
         \A s \in DOMAIN stored \cap DOMAIN new :
           \A token \in Tokens(stored, s) \cap Tokens(new, s) :
             /\ s \in DOMAIN stored'
             /\ RecordsWith(stored', s, token) = RecordsWith(stored, s, token)
             /\ RecordsWith(manifest', s, token) = RecordsWith(stored, s, token)]_vars

\* C6: after an update_index that completed, the manifest has the subjects of
\* the new data and, for every subject, the version ids of the new data.
C6_UpdateMirrorsNewData ==
  [][UpdateCompleted =>
       \E new \in Matches :
         /\ DOMAIN stored' = DOMAIN new
         /\ \A s \in DOMAIN new : Ids(stored', s) = Ids(new, s)]_vars


Number(token) == ParseInt(Rest(token))

\* C7: when remove_volume_version removes the selected token of a subject
\* and another version remains, the selection becomes the remaining token
\* with the largest number; when no version remains the entry is deleted.
C7_LatestOnRemoval ==
  [][\A s \in {A, B, C}, v \in RemovedTokens :
       (RemoveWith(s, v) /\ s \in DOMAIN manifest) =>
         LET remaining == Tokens(manifest, s) \ {v}
         IN /\ remaining = {} => s \notin DOMAIN manifest'
            /\ (remaining # {} /\ manifest[s].selected = v) =>
                 /\ s \in DOMAIN manifest'
                 /\ manifest'[s].selected \in remaining
                 /\ \A t \in remaining : Number(t) <= Number(manifest'[s].selected)]_vars

\* The selected v2 of A was removed while v9 and v10 remain: v10 is selected.
C7_Witness ==
  /\ last.op = "remove_volume_version"
  /\ "updated selected-version to latest" \in last.log
  /\ A \in DOMAIN manifest
  /\ manifest[A].selected = <<"v", "1", "0">>
  /\ <<"v", "9">> \in Tokens(manifest, A)

\* ^v\d+$
WellFormed(token) == StartsWith(token, <<"v">>) /\ IsDecimal(Rest(token))

\* select_segmentation returned an error and changed neither the manifest in
\* memory (loaded from the persisted one) nor the persisted one.
RejectedUnchanged == last'.errors # {} /\ manifest' = stored /\ stored' = stored

\* C8: select_segmentation with an unknown subject, or with a well-formed
\* token that is not among the subject's tokens, returns an error and
\* changes neither the manifest in memory nor the persisted one.
C8_NotFoundUnchanged ==
  [][\A f \in VolumeFnames, t \in TypedTokens :
       LET s == DropExt(f, vext)
       IN (/\ last'.op = "select_segmentation"
           /\ EndsWith(f, vext)
           /\ \/ s \notin DOMAIN stored
              \/ WellFormed(Strip(t)) /\ Strip(t) \notin Tokens(stored, s)
           /\ SelectWith(f, t))
          => RejectedUnchanged]_vars

\* C8 with the volume file required: select_segmentation with an unknown
\* subject, or with a known subject whose volume file is on disk and a
\* well-formed token that is not among the subject's tokens, returns an
\* error and changes neither the manifest in memory nor the persisted one.
C8_NotFoundUnchangedOnDisk ==
  [][\A f \in VolumeFnames, t \in TypedTokens :
       LET s == DropExt(f, vext)
       IN (/\ last'.op = "select_segmentation"
           /\ EndsWith(f, vext)
           /\ \/ s \notin DOMAIN stored
              \/ /\ s \in DOMAIN stored /\ s \in VFiles
                 /\ WellFormed(Strip(t)) /\ Strip(t) \notin Tokens(stored, s)
           /\ SelectWith(f, t))
          => RejectedUnchanged]_vars

\* A well-formed token that A does not have was refused.
C8_Witness ==
  /\ last.op = "select_segmentation"
  /\ "Version not found in manifest" \in last.errors
  /\ manifest = stored /\ A \in DOMAIN stored

\* C9: select_segmentation with a token that, trimmed, does not match
\* ^v\d+$ returns the validation error and changes neither the manifest nor
\* the persisted state.
C9_MalformedRejected ==
  [][\A f \in VolumeFnames, t \in TypedTokens :
       (last'.op = "select_segmentation" /\ ~WellFormed(Strip(t)) /\ SelectWith(f, t)) =>
         /\ "Version must be like v<N>" \in last'.errors
         /\ manifest' = stored /\ stored' = stored]_vars

\* C10: select_segmentation with a known subject, one of its tokens and both
\* files on disk sets the subject's selection to the token and changes
\* nothing else; with the token already selected the manifest is unchanged
\* and a warning is returned with no error.
C10_SelectSets ==
  [][\A f \in VolumeFnames, t \in TypedTokens :
       LET s == DropExt(f, vext)
           token == Strip(t)
       IN (/\ last'.op = "select_segmentation"
           /\ EndsWith(f, vext)
           /\ s \in DOMAIN stored /\ token \in Tokens(stored, s)
           /\ s \in VFiles /\ (s \o <<"-">> \o token) \in SFiles
           /\ SelectWith(f, t))
          => /\ manifest' = [stored EXCEPT ![s].selected = token]
             /\ stored' = manifest'
             /\ last'.errors = {}
             /\ stored[s].selected = token =>
                  manifest' = stored /\ last'.warnings # {} /\ last'.log = {}]_vars

\* The selection of A was moved to v1 while A has another version.
C10_Witness ==
  /\ last.op = "select_segmentation"
  /\ "Selected segmentation updated" \in last.log
  /\ A \in DOMAIN stored /\ stored[A].selected = <<"v", "1">>
  /\ <<"v", "2">> \in Tokens(stored, A)

\* What select_segmentation returns in the step's state.
Selected(f, t) == select_segmentation(stored, stored, VFiles, SFiles, f, t)

WarningsOf(r, kind) == {r.warnings[i] : i \in {j \in 1..Len(r.warnings) : r.warnings[j].kind = kind}}

\* C11: when select_segmentation targets a token of the manifest whose
\* segmentation file is missing, the version is removed in memory and
\* persisted, the token is not selected, the warning lists exactly the
\* versions still available, and a version announced as the new default is
\* the subject's selection afterwards; with no version left none is announced.
C11_MissingFileReconciled ==
  [][\A f \in VolumeFnames, t \in TypedTokens :
       LET s == DropExt(f, vext)
           token == Strip(t)
           r == Selected(f, t)
       IN (/\ last'.op = "select_segmentation"
           /\ EndsWith(f, vext)
           /\ s \in DOMAIN stored /\ s \in VFiles
           /\ token \in Tokens(stored, s)
           /\ (s \o <<"-">> \o token) \notin SFiles
           /\ SelectWith(f, t))
          => /\ manifest' = stored'
             /\ get_all_versions(stored', s) =
                  SelectSeq(get_all_versions(stored, s), LAMBDA v : v.version # token)
             /\ get_selected_version(stored', s) # token
             /\ WarningsOf(r, "Please select from available versions") # {}
             /\ \A w \in WarningsOf(r, "Please select from available versions") :
                  w.what = get_all_version_strings(stored', s)
             /\ \A w \in WarningsOf(r, "Previously selected version no longer available. Defaulting to") :
                  s \in DOMAIN stored' /\ w.what = stored'[s].selected]_vars

VersionDigits(s, base) ==
  LET prefix == s \o <<"-", "v">>
      digits == SubSeq(base, Len(prefix) + 1, Len(base))
  IN IF StartsWith(base, prefix) /\ IsDecimal(digits) THEN digits ELSE <<>>

\* The version number the derivation rule gives.
NextVersion(vols, s, base) ==
  IF VersionDigits(s, base) # <<>> THEN ParseInt(VersionDigits(s, base))
  ELSE IF Tokens(vols, s) = {} THEN 1
  ELSE (CHOOSE n \in {Number(tk) : tk \in Tokens(vols, s)} :
          \A tk \in Tokens(vols, s) : Number(tk) <= n) + 1

\* The step is link_segmentation(vf, sf) that went past its checks.
Linked(vf, sf, g, h) ==
  /\ last'.op = "link_segmentation"
  /\ last'.errors = {} /\ last'.raised # "ImageDataMatchingError"
  /\ LinkWith(vf, sf, g, h)

\* C13: link_segmentation assigns the number in the base name when it has the
\* form <subject>-v<digits>, else the largest number of the subject plus one,
\* else 1: the file carries that number afterwards and, when the call
\* returns, the subject's tokens are the old ones and that one.
C13_NextVersion ==
  [][\A vf \in LinkVolumeFnames, sf \in LinkSegFnames, g \in BOOLEAN, h \in BOOLEAN :
       LET s == DropExt(vf, vext)
           token == VToken(NextVersion(stored, s, DropExt(sf, sext)))
       IN Linked(vf, sf, g, h) =>
            /\ (s \o <<"-">> \o token) \in segFiles'
            /\ last'.raised = "" => Tokens(stored', s) = Tokens(stored, s) \cup {token}]_vars

\* An unversioned file was linked to A with versions 1 and 3: it became v4.
C13_Witness ==
  /\ last.op = "link_segmentation"
  /\ "Entry added to index" \in last.log
  /\ A \in DOMAIN stored
  /\ Tokens(stored, A) = {<<"v", "1">>, <<"v", "3">>, <<"v", "4">>}
  /\ Seg(A, <<"4">>) \in segFiles

C15_LinkFailsFast ==
  [][\A vf \in LinkVolumeFnames, sf \in LinkSegFnames, g \in BOOLEAN, h \in BOOLEAN :
       LET s == DropExt(vf, vext)
           base == DropExt(sf, sext)
           target == s \o <<"-">> \o VToken(NextVersion(stored, s, base))
       IN (/\ last'.op = "link_segmentation"
           /\ \/ ~EndsWith(vf, vext) \/ ~EndsWith(sf, sext)
              \/ s \notin VFiles \/ base \notin SFiles
              \/ ~g
              \/ target # base /\ target \in SFiles
           /\ LinkWith(vf, sf, g, h))
          => /\ segFiles' = segFiles
             /\ manifest' = stored /\ stored' = stored
             /\ last'.log = {}
             /\ last'.errors # {} \/ last'.raised = "ImageDataMatchingError"]_vars

\* The geometry check rejected a pair of files that are both on disk.
C15_Witness ==
  /\ last.op = "link_segmentation"
  /\ last.raised = "ImageDataMatchingError"
  /\ <<"T">> \in segFiles /\ A \in volFiles

\* S is X followed by "-v" and one or more digits, with nothing after them.
IsVersionOf(S, X) ==
  /\ Len(S) >= Len(X) + 3
  /\ SubSeq(S, 1, Len(X)) = X /\ S[Len(X) + 1] = "-" /\ S[Len(X) + 2] = "v"
  /\ \A i \in (Len(X) + 3)..Len(S) : S[i] \in DecDigits

\* The number N of a segmentation named X-v<N>.
NumberOf(S, X) == ParseInt(SubSeq(S, Len(X) + 3, Len(S)))

VersionsOf(X) == {S \in SFiles : IsVersionOf(S, X)}

Matched == last.op = "get_volseg_matches"

\* The names the last matcher result lists under a warning.
Listed(kind) ==
  UNION {last.result.warnings[i].names :
           i \in {k \in 1..Len(last.result.warnings) : last.result.warnings[k].kind = kind}}

\* C16: the index of verify_volseg_match holds exactly the volumes with a
\* segmentation named <volume>-v<N>, each with one record per such
\* segmentation, in ascending order of N, and selects the highest N; for
\* volumes {A, B} and segmentations {A-v1, A-v2, C-v1} it holds only A with
\* v1, v2 and selected v2.
C16_MatchingCorrect ==
  Matched =>
    LET idx == last.result.volumes
    IN /\ DOMAIN idx = {X \in VFiles : VersionsOf(X) # {}}
       /\ \A X \in DOMAIN idx :
            LET vs == idx[X].versions
            IN /\ Len(vs) = Cardinality(VersionsOf(X))
               /\ {vs[i].id : i \in 1..Len(vs)} = VersionsOf(X)
               /\ \A i \in 1..Len(vs) :
                    vs[i].id \in VersionsOf(X) => vs[i].version = VToken(NumberOf(vs[i].id, X))
               /\ \A i, j \in 1..Len(vs) :
                    i < j => Number(vs[i].version) <= Number(vs[j].version)
               /\ idx[X].selected = vs[Len(vs)].version
       /\ (VFiles = {A, B} /\ SFiles = {Seg(A, <<"1">>), Seg(A, <<"2">>), Seg(C, <<"1">>)}) =>
            /\ DOMAIN idx = {A}
            /\ get_all_version_strings(idx, A) = <<<<"v", "1">>, <<"v", "2">>>>
            /\ idx[A].selected = <<"v", "2">>

\* C17: a segmentation is attached to a volume exactly when its name is the
\* volume's name, "-v" and digits with nothing after them, and no
\* segmentation is attached to two volumes.
C17_NamingConvention ==
  Matched =>
    LET idx == last.result.volumes
        Attached(S, X) == X \in DOMAIN idx /\ S \in Ids(idx, X)
    IN /\ \A X \in VFiles, S \in SFiles : Attached(S, X) <=> IsVersionOf(S, X)
       /\ \A S \in SFiles : Cardinality({X \in VFiles : Attached(S, X)}) <= 1

\* C18: when both directories hold files, every volume is a key of the index
\* or listed as without segmentation, and every segmentation is the id of a
\* version or listed as without volume, never both and never neither; the
\* matcher reports no error.
C18_OrphansPartition ==
  (Matched /\ VFiles # {} /\ SFiles # {}) =>
    LET idx == last.result.volumes
    IN /\ \A X \in VFiles :
            (X \in DOMAIN idx) # (X \in Listed("Volumes without segmentation"))
       /\ \A S \in SFiles :
            (S \in AllIds(idx)) # (S \in Listed("Segmentations without volume"))
       /\ Listed("Volumes without segmentation") \subseteq VFiles
       /\ Listed("Segmentations without volume") \subseteq SFiles
       /\ last.result.errors = <<>>

\* B has no segmentation and C-v1 no volume, next to the matched A.
C18_Witness ==
  /\ Matched
  /\ VFiles = {A, B} /\ SFiles = {Seg(A, <<"1">>), Seg(A, <<"2">>), Seg(C, <<"1">>)}
  /\ Listed("Volumes without segmentation") = {B}
  /\ Listed("Segmentations without volume") = {Seg(C, <<"1">>)}
  /\ DOMAIN last.result.volumes = {A}

\* C19: a side whose directory is missing or holds no file is reported as an
\* error, and then the index is empty and no warning is given.
C19_EmptySideIsError ==
  Matched =>
    /\ ~volDir => "volumes directory does not exist" \in last.errors
    /\ (volDir /\ volFiles = {}) => "no volume file" \in last.errors
    /\ ~segDir => "segmentations directory does not exist" \in last.errors
    /\ (segDir /\ segFiles = {}) => "no segmentation file" \in last.errors
    /\ (VFiles = {} \/ SFiles = {}) =>
         /\ DOMAIN last.result.volumes = {}
         /\ last.result.warnings = <<>>
         /\ last.errors # {}
    /\ (VFiles # {} /\ SFiles # {}) => last.errors = {}

\* The segmentations directory is missing while the volumes directory holds A.
C19_Witness ==
  /\ Matched
  /\ ~segDir /\ volDir /\ A \in volFiles
  /\ last.errors = {"segmentations directory does not exist"}
  /\ DOMAIN last.result.volumes = {}

\* The subjects of the persisted manifest that have a selected version.
WithSelection == {s \in DOMAIN stored : stored[s].selected # Null}

\* The line that pairs a subject's volume file with the file of its selected version.
RowOf(s) ==
  [volume |-> root_dir \o volume_path \o s \o vext,
   segmentation |-> root_dir \o label_path \o s \o <<"-">> \o stored[s].selected \o sext]

\* C20: the file export_index writes holds, after the header, one line for
\* every subject with a selected version and no other line, and the line
\* names the volume file and the segmentation file of the selected version.
C20_ExportSelected ==
  /\ (last.op = "export_index" /\ last.raised = "") =>
       LET rows == Tail(last.csv)
       IN /\ Head(last.csv) = CsvHeader
          /\ Len(rows) = Cardinality(WithSelection)
          /\ \A s \in WithSelection :
               Cardinality({i \in 1..Len(rows) : rows[i] = RowOf(s)}) = 1
  /\ \A s \in DOMAIN stored :
       LET r == export_index([stored EXCEPT ![s].selected = Null], TRUE, <<"out", ".csv">>)
       IN IF r.raised # "" THEN r.csv = Null /\ WithSelection \ {s} = {}
          ELSE /\ Len(r.csv) = 1 + Cardinality(WithSelection \ {s})
               /\ \A i \in 2..Len(r.csv) :
                    /\ r.csv[i].volume # root_dir \o volume_path \o s \o vext
                    /\ \E x \in WithSelection \ {s} : r.csv[i] = RowOf(x)

\* A was exported with v1 selected while its latest version is v2.
C20_Witness ==
  /\ last.op = "export_index" /\ last.raised = ""
  /\ A \in DOMAIN stored /\ stored[A].selected = <<"v", "1">>
  /\ get_latest_version(stored, A) = 2
  /\ \E i \in 2..Len(last.csv) :
       last.csv[i].segmentation = root_dir \o label_path \o Seg(A, <<"1">>) \o sext

\* C21: every field of every line export_index writes after the header is a
\* bare file name, <subject><volume-extension> or
\* <subject>-<version><label-extension>, without any directory in front.
C21_BareFilenames ==
  (last.op = "export_index" /\ last.raised = "") =>
    \A i \in 2..Len(last.csv) :
      \E s \in DOMAIN stored :
        /\ last.csv[i].volume = s \o vext
        /\ last.csv[i].segmentation = s \o <<"-">> \o stored[s].selected \o sext

\* C22: export_index raises, writes no file and leaves the manifest in
\* memory and persisted as they were when the directory of the path does not
\* exist, the file name has no .csv suffix, or no subject has a selected version.
C22_ExportFails ==
  [][\A dir_exists \in BOOLEAN, filename \in CsvFilenames :
       (/\ last'.op = "export_index"
        /\ \/ ~dir_exists
           \/ filename \notin {<<"out", ".csv">>, <<"out", ".CSV">>}
           \/ WithSelection = {}
        /\ ExportWith(dir_exists, filename))
       => /\ last'.raised = "SegVerException"
          /\ last'.csv = Null
          /\ "Exported to" \notin last'.log
          /\ manifest' = stored /\ stored' = stored]_vars

\* An export failed on an index that holds no volume.
C22_Witness ==
  /\ last.op = "export_index"
  /\ last.raised = "SegVerException" /\ last.csv = Null
  /\ DOMAIN stored = {}

\* The index names the configuration of the service object registers.
Registered(svc) == Range(Split(svc.config.available))

persisted == <<stored, config, files>>

\* C23: create_index with a name that exists, registered when the service was
\* constructed or by an earlier create_index on the same object, raises, and
\* a create_index that raises leaves the active index, the manifest and the
\* registered indexes as they were.
C23_CreateExistingFails ==
  [][\A index_name \in IndexNames, walk \in Walks(SFiles) :
       /\ (/\ last'.op = "create_index"
           /\ index_name \in Registered(service) \cup Range(service.available_indexes)
           /\ CreateWith(index_name, walk))
          => last'.raised = "SegVerException"
       /\ (/\ last'.op = "create_index"
           /\ last'.raised # ""
           /\ CreateWith(index_name, walk))
          => service' = service /\ manifest' = manifest /\ UNCHANGED persisted]_vars

\* C24: after a create_index that returned, its name is the active index,
\* the manifest is the one just matched under that name, and the name is
\* among the available indexes of the service object and of its configuration.
C24_CreatedIsRegistered ==
  [][\A index_name \in IndexNames, walk \in Walks(SFiles) :
       (/\ last'.op = "create_index"
        /\ last'.raised = ""
        /\ CreateWith(index_name, walk))
       => /\ service'.active_index = index_name
          /\ service'.index_name = index_name
          /\ manifest' =
               verify_volseg_match(volDir, volFiles, segDir, segFiles, walk, clock).volumes
          /\ index_name \in Registered(service')
          /\ index_name \in Range(service'.available_indexes)
          /\ service'.active_index \in Range(service'.available_indexes)]_vars

\* C25: select_index with a name that is not among the available indexes
\* raises and leaves the active index, the manifest in memory and the
\* config file as they were.
C25_SelectUnknownFails ==
  [][\A index_name \in IndexNames :
       (/\ last'.op = "select_index"
        /\ index_name \notin Range(service.available_indexes)
        /\ SelectIndexWith(index_name))
       => /\ last'.raised = "SegVerException"
          /\ service' = service /\ manifest' = manifest
          /\ UNCHANGED persisted]_vars

\* An index was created and not saved; selecting it by name was refused.
C25_Witness ==
  /\ last.op = "select_index" /\ last.raised = "SegVerException"
  /\ service.active_index = <<"a">> /\ config.active = DefaultIndex

\* C26: after a select_index that returned, its name is the active index and
\* the manifest in memory is the one persisted under that name; no manifest
\* file is written, so a manifest that was only in memory is not in storage.
C26_SelectLoads ==
  [][\A index_name \in IndexNames :
       (/\ last'.op = "select_index"
        /\ last'.raised = ""
        /\ SelectIndexWith(index_name))
       => /\ service'.active_index = index_name
          /\ service'.index_name = index_name
          /\ index_name \in DOMAIN Manifests /\ manifest' = Manifests[index_name]
          /\ Manifests' = Manifests
          /\ config'.active \in {config.active, index_name}]_vars

\* The index a was created and not saved, then the default index selected:
\* no manifest of a is in storage.
C26_Witness ==
  /\ last.op = "select_index" /\ "activated successfully" \in last.log
  /\ service.active_index = DefaultIndex
  /\ <<"a">> \in Registered(service)
  /\ <<"a">> \notin DOMAIN Manifests
  /\ manifest = stored

\* C27: one index is active, and every index name the config file registers
\* has its manifest file.
C27_RegisteredHaveFiles ==
  /\ config.active \in DOMAIN Manifests
  /\ \A n \in Range(Split(config.available)) : n \in DOMAIN Manifests

\* The record the metadata command looks at: the first with the token.
RecordOf(vols, s, token) == RecordsWith(vols, s, token)[1]

\* C28: update_segmentation_metadata sets last-updated exactly when author,
\* notes or tags change, a field changing only when the value typed is not
\* empty and differs from the record's, the tags compared after the text is
\* split at the commas and trimmed; typing the record's own tags and nothing
\* new leaves the record, last-updated included, as it was.
C28_MetadataChanges ==
  [][\A vf \in MetaVolumeFnames, token \in MetaTokens, a \in MetaAuthors,
        n \in MetaNotes, tg \in MetaTags :
       LET s == DropExt(vf, vext)
           v == RecordOf(stored, s, token)
           w == RecordOf(stored', s, token)
           changed == \/ a # "" /\ a # v.author
                      \/ n # "" /\ n # v.notes
                      \/ tg # <<>> /\ TagList(tg) # v.tags
       IN (/\ last'.op = "update_segmentation_metadata"
           /\ s \in DOMAIN stored /\ token \in Tokens(stored, s)
           /\ MetadataWith(vf, token, a, n, tg))
          => /\ s \in DOMAIN stored' /\ token \in Tokens(stored', s)
             /\ w.author = (IF a # "" THEN a ELSE v.author)
             /\ w.notes = (IF n # "" THEN n ELSE v.notes)
             /\ w.tags = (IF tg # <<>> THEN TagList(tg) ELSE v.tags)
             /\ w.lu = (IF changed THEN clock ELSE v.lu)
             /\ ~changed => stored' = stored]_vars

\* C29: update_segmentation_metadata for a subject the manifest does not
\* have, or a version the subject does not have, returns an error and leaves
\* the manifest in memory and persisted as they were.
C29_MetadataNotFound ==
  [][\A vf \in MetaVolumeFnames, token \in MetaTokens, a \in MetaAuthors,
        n \in MetaNotes, tg \in MetaTags :
       LET s == DropExt(vf, vext)
       IN (/\ last'.op = "update_segmentation_metadata"
           /\ s \notin DOMAIN stored \/ token \notin Tokens(stored, s)
           /\ MetadataWith(vf, token, a, n, tg))
          => /\ last'.errors # {}
             /\ last'.log = {}
             /\ manifest' = stored /\ stored' = stored]_vars

\* The version typed is not one of A, whose record carries an author.
C29_Witness ==
  /\ last.op = "update_segmentation_metadata"
  /\ last.errors = {"Version not found for volume"}
  /\ A \in DOMAIN stored /\ manifest = stored
  /\ \E i \in 1..Len(stored[A].versions) : stored[A].versions[i].author = "ann"

\* C30: when a directory of the instance is missing or holds no file with
\* its extension, the update command stops on the matcher's error before the
\* reconciliation, and the persisted manifest keeps its volumes.
C30_UpdateAborts ==
  [][((VFiles = {} \/ SFiles = {}) /\ Update)
       => /\ last'.op = "update aborted"
          /\ last'.errors # {}
          /\ stored' = stored /\ manifest' = stored]_vars

\* The segmentations are gone, the update was aborted and the manifest kept.
C30_Witness ==
  /\ last.op = "update aborted"
  /\ SFiles = {} /\ VFiles # {}
  /\ DOMAIN stored # {} /\ manifest = stored


\* C31: an update command that reaches update_index with an old manifest that
\* satisfies I1, I2 and I3 never ends in an exception: update_index runs to
\* completion, also when a removal in the removed-versions loop empties an
\* entry and deletes it.
C31_UpdateNeverRaises ==
  [][(last'.op = "update" /\ I1(stored) /\ I2(stored) /\ I3(stored) /\ Update)
       => last'.raised = ""]_vars


\* How many entries of a log are the message m.
Count(log, m) == Cardinality({i \in 1..Len(log) : log[i] = m})

\* The log is exact for the old manifest and the new data: one "added
\* version" entry per new version id, one "removed volume" entry per vanished
\* subject, one "removed version" entry per vanished version id, naming its owner.
ExactLog(log, old, new) ==
  /\ \A s \in DOMAIN new : \A i \in 1..Len(new[s].versions) :
        LET token == new[s].versions[i].version
        IN Count(log, Msg("added version", s, token))
             = Cardinality({j \in 1..Len(new[s].versions) :
                              /\ new[s].versions[j].version = token
                              /\ new[s].versions[j].id \notin AllIds(old)})
  /\ \A s \in DOMAIN old \cup DOMAIN new :
        Count(log, Msg("removed volume", s, <<>>)) = IF s \in DOMAIN old \ DOMAIN new THEN 1 ELSE 0
  /\ \A s \in DOMAIN old \cup DOMAIN new : \A id \in AllIds(old) \cup AllIds(new) :
        Count(log, Msg("removed version", s, id))
          = IF id \in RemovedSegs(old, new) /\ s \in DOMAIN old /\ id \in Ids(old, s) THEN 1 ELSE 0

\* C32: the log of an update_index that completed holds one "added version"
\* entry per version id in the new data and not in the old manifest, one
\* "removed volume" entry per vanished subject, and one "removed version"
\* entry per version id in the old manifest and not in the new data, naming
\* the subject that owned the version and no other subject.
C32_ExactLog ==
  [][UpdateCompleted =>
       \E walk \in Walks(segFiles) :
         LET new == verify_volseg_match(volDir, volFiles, segDir, segFiles, walk, clock).volumes
         IN \E seg_order \in Orders(RemovedSegs(stored, new)) :
              LET r == update_index(stored, new, seg_order)
              IN ~r.raised /\ r.volumes = stored' /\ ExactLog(r.log, stored, new)]_vars


\* C33: the volumes mapping that update_index ends with does not depend on
\* the order in which the set of removed version ids is iterated: on the same
\* old manifest and new data, any two orders end with the same mapping.
C33_OrderIndependent ==
  [][(last'.op = "update" /\ Update) =>
       \A walk \in Walks(segFiles) :
         LET new == verify_volseg_match(volDir, volFiles, segDir, segFiles, walk, clock).volumes
         IN \A o1, o2 \in Orders(RemovedSegs(stored, new)) :
              update_index(stored, new, o1).volumes = update_index(stored, new, o2).volumes]_vars


\* C34: when remove_volume_version removes the selected token of a subject,
\* it returns the notice of a selection updated to the latest version only
\* when another version remains, and the version named is a remaining token
\* of the subject; when no version remains it returns the notice that no
\* selected version is available and names no version.
C34_RemovalNotice ==
  [][\A s \in {A, B, C}, v \in RemovedTokens :
       (/\ last'.op = "remove_volume_version"
        /\ s \in DOMAIN manifest
        /\ manifest[s].selected = v /\ v \in Tokens(manifest, s)
        /\ RemoveWith(s, v)) =>
         LET r == remove_volume_version(manifest, s, v)
             remaining == Tokens(manifest, s) \ {v}
         IN /\ remaining # {} =>
                 r.log = "updated selected-version to latest" /\ r.latest \in remaining
            /\ remaining = {} =>
                 r.log = "no selected-version available" /\ r.latest = Null]_vars


\* C35: remove_volume_version of a token that is not the selected one, while
\* other versions remain, leaves the selected version and every other
\* version record of the subject unchanged and touches no other subject;
\* with a token the subject does not have, or an unknown subject, it changes
\* nothing.
C35_RemovalFrame ==
  [][\A s \in {A, B, C}, v \in RemovedTokens :
       (last'.op = "remove_volume_version" /\ RemoveWith(s, v)) =>
         IF s \notin DOMAIN manifest \/ v \notin Tokens(manifest, s)
         THEN manifest' = manifest
         ELSE (manifest[s].selected # v /\ Tokens(manifest, s) # {v}) =>
                /\ DOMAIN manifest' = DOMAIN manifest
                /\ \A o \in DOMAIN manifest \ {s} : manifest'[o] = manifest[o]
                /\ manifest'[s].selected = manifest[s].selected
                /\ manifest'[s].versions
                     = SelectSeq(manifest[s].versions, LAMBDA r : r.version # v)]_vars

\* A non-selected version of A was removed and A keeps its selection and two versions.
C35_Witness ==
  /\ last.op = "remove_volume_version" /\ last.log = {}
  /\ A \in DOMAIN manifest /\ A \in DOMAIN stored
  /\ Len(manifest[A].versions) = 2 /\ Len(stored[A].versions) = 3
  /\ manifest[A].selected = stored[A].selected


\* C36: after an update_index that completed, every subject that is in both
\* the old manifest and the new data and whose selected version is a token of
\* the new data keeps its selected version, also when the new data brings a
\* version with a higher number.
C36_SelectionKept ==
  [][UpdateCompleted =>
       \E new \in Matches :
         \A s \in DOMAIN stored \cap DOMAIN new :
           stored[s].selected \in Tokens(new, s) =>
             /\ s \in DOMAIN stored'
             /\ stored'[s].selected = stored[s].selected
             /\ manifest'[s].selected = stored[s].selected]_vars


C37_WitnessExisting ==
  /\ last.op = "link_segmentation" /\ last.raised = ""
  /\ "Entry added to index" \in last.log
  /\ A \in DOMAIN stored
  /\ Len(stored[A].versions) = 2
  /\ stored[A].selected = stored[A].versions[1].version


\* The step is select_segmentation(vf, tk) for a subject of the manifest
\* whose volume file is not on disk.
SelectMissing(vf, tk) ==
  /\ last'.op = "select_segmentation"
  /\ EndsWith(vf, vext)
  /\ DropExt(vf, vext) \in DOMAIN stored /\ DropExt(vf, vext) \notin VFiles
  /\ SelectWith(vf, tk)

\* The subject's entry is gone from the manifest in memory and from the
\* persisted one, every other entry is as it was, errors were returned and
\* nothing was selected.
EntryRemoved(s) ==
  /\ DOMAIN stored' = DOMAIN stored \ {s}
  /\ \A o \in DOMAIN stored' : stored'[o] = stored[o]
  /\ manifest' = stored'
  /\ last'.errors # {} /\ last'.log = {}

\* C38: select_segmentation for a subject that is in the manifest but whose
\* volume file is missing on disk removes the subject's whole entry from the
\* manifest, persists the result, returns errors and selects nothing; the
\* entry of every other subject is unchanged.
C38_MissingVolumeRemoved ==
  [][\A vf \in VolumeFnames, tk \in TypedTokens :
       SelectMissing(vf, tk) => EntryRemoved(DropExt(vf, vext))]_vars

\* C38 for the version tokens that pass the validation of select_segmentation.
C38_MissingVolumeRemovedValid ==
  [][\A vf \in VolumeFnames, tk \in TypedTokens :
       (ValidToken(Strip(tk)) /\ SelectMissing(vf, tk)) => EntryRemoved(DropExt(vf, vext))]_vars

\* A's volume file was missing: a selection removed A's entry and kept B's.
C38_Witness ==
  /\ last.op = "select_segmentation"
  /\ "Removed volume from manifest" \in last.errors
  /\ A \notin DOMAIN stored /\ B \in DOMAIN stored
  /\ manifest = stored


\* C39: in every state reached by create_index, select_index and save_index
\* the index-name of the manifest in memory is the active index name of the
\* service, and save_index writes the manifest in memory to the file of the
\* active index and leaves the manifest file of every other index as it was.
C39_SavesActiveIndex ==
  /\ [](service.index_name = service.active_index)
  /\ [][(last'.op = "save_index" /\ SaveIndex) =>
          /\ service.active_index \in DOMAIN Manifests'
          /\ Manifests'[service.active_index] = manifest
          /\ \A n \in DOMAIN Manifests \ {service.active_index} :
                n \in DOMAIN Manifests' /\ Manifests'[n] = Manifests[n]]_vars

\* The index a was created next to other files and saved, while the file of
\* the default index holds another manifest.
C39_Witness ==
  /\ last.op = "save_index"
  /\ service.active_index = <<"a">> /\ service.index_name = <<"a">>
  /\ DefaultIndex \in DOMAIN Manifests
  /\ Manifests[<<"a">>] = manifest
  /\ Manifests[DefaultIndex] # manifest


\* The commands of C40.
SavingOps ==
  {"update", "link_segmentation", "select_segmentation", "update_segmentation_metadata"}

\* C40: after update_index, link_segmentation, select_segmentation or
\* update_segmentation_metadata, called on a service that loaded the
\* persisted manifest, the persisted manifest of the active index equals the
\* manifest in memory: what the call changed in memory it also saved.
C40_ChangesPersisted == last.op \in SavingOps => manifest = stored

====
